---- MODULE Spec2Model ----
(***************************************************************************)
(* Smart study planner: the rules engine (rules.js), the scheduler         *)
(* (scheduler module), the plan assembly and the storage manager           *)
(* (storage.js), as state machines whose actions are the operations of     *)
(* the singletons.  Spec drives the rules engine and generatePlan;         *)
(* SpecDay the end-of-day steps of the day loop; SpecSelect the selection  *)
(* of a day's subjects; SpecStore the stored data and its export/import.   *)
(*                                                                         *)
(* Units.  Clock times and durations are minutes.  Weights are kept in     *)
(* hundredths (4.5 is 450) and allocated hours in hundredths of an hour,   *)
(* which is the precision toFixed(2) leaves.  The daily budget of the fill *)
(* loop is kept in minutes (remainingHours * 60).                          *)
(*                                                                         *)
(* JavaScript values.  A property that an object does not have reads as    *)
(* undefined; objects are records and "has the property" is membership in  *)
(* DOMAIN.  A number that may be undefined or NaN is a tagged record       *)
(* (Num, Undef, NaN).  A thrown exception is the result Thrown(e); a       *)
(* normal return is Ok(v).                                                 *)
(***************************************************************************)
EXTENDS Integers, Sequences, FiniteSets, TLC

\* ------------------------------------------------------------------ bounds
MaxSubjects == 2
MaxDays == 2
MaxSlots == 3
MaxValDays == 2

\* ------------------------------------------------------- JavaScript values
Num(n) == [k |-> "num", v |-> n]
Undef == [k |-> "undef", v |-> 0]
NaN == [k |-> "nan", v |-> 0]
Truthy(x) == x.k = "num" /\ x.v # 0

Ok(v) == [ok |-> TRUE, val |-> v]
Thrown(e) == [ok |-> FALSE, err |-> e]

\* `const x = e; ... x ...`: e is evaluated once and F applied to its value
Bind(e, F(_)) == CHOOSE y \in {F(x) : x \in {e}} : TRUE

Has(obj, field) == field \in DOMAIN obj
EmptyObject == [f \in {} |-> 0]

Max2(a, b) == IF a >= b THEN a ELSE b
Min2(a, b) == IF a <= b THEN a ELSE b

\* Math.min / Math.max with one possibly-undefined operand: undefined -> NaN
MathMin(x, n) == IF x.k = "num" THEN Num(Min2(x.v, n)) ELSE NaN
MathMax(x, n) == IF x.k = "num" THEN Num(Max2(x.v, n)) ELSE NaN

RECURSIVE SumSeq(_)
SumSeq(s) == IF s = << >> THEN 0 ELSE Head(s) + SumSeq(Tail(s))

\* round to nearest of num/den (den > 0, num >= 0), ties up: Math.round, toFixed
RoundDiv(num, den) == (2 * num + den) \div (2 * den)
CeilDiv(num, den) == (num + den - 1) \div den

\* ---------------------------------------------------------------- config.js
STUDY == "study"
BREAK == "break"
REVISION == "revision"

\* CONFIG.PRIORITY_WEIGHTS[p]; 0 stands for the undefined of a missing key
PRIORITY_WEIGHTS(p) ==
    CASE p = "high" -> 3
      [] p = "medium" -> 2
      [] p = "low" -> 1
      [] OTHER -> 0

\* CONFIG.DIFFICULTY_WEIGHTS[d] in tenths; 0 for a missing key
DIFFICULTY_WEIGHTS(d) ==
    CASE d = "hard" -> 15
      [] d = "medium" -> 10
      [] d = "easy" -> 8
      [] OTHER -> 0

MORNING_PEAK == <<9, 12>>
AVOID_LATE_NIGHT == 22
MAX_SESSIONS_WITHOUT_LONG_BREAK == 4
LONG_BREAK_DURATION == 30
REVISION_FREQUENCY == 3

\* --------------------------------------------------------- rules.js: rules
\* obj[key] || 0 on a mapping that may lack the key
LookupOrZero(map, key) == IF key \in DOMAIN map THEN map[key] ELSE 0

priority_allocation(subject, context) ==
    LET weight == IF PRIORITY_WEIGHTS(subject.priority) # 0
                  THEN PRIORITY_WEIGHTS(subject.priority) ELSE 1
    IN  [weightMultiplier |-> weight]

difficulty_adaptation(subject, context) ==
    LET sessionLength == IF Has(context, "defaultSessionLength")
                         THEN Num(context.defaultSessionLength) ELSE Undef
    IN  CASE subject.difficulty = "hard" ->
               [adaptedSessionLength |-> MathMin(sessionLength, 45),
                breakMultiplier |-> 15]
          [] subject.difficulty = "easy" ->
               [adaptedSessionLength |-> MathMax(sessionLength, 60),
                breakMultiplier |-> 8]
          [] OTHER ->
               [adaptedSessionLength |-> sessionLength,
                breakMultiplier |-> 10]

time_preference(subject, context) ==
    [preferredTimeSlots |->
        IF subject.difficulty = "hard" \/ subject.priority = "high"
        THEN MORNING_PEAK
        ELSE IF subject.difficulty = "medium" \/ subject.priority = "medium"
        THEN <<13, 17>>
        ELSE <<18, 20>>]

consecutive_avoidance(subject, context) ==
    LET avoidConsecutive == Has(context, "lastScheduledSubject")
                            /\ context.lastScheduledSubject = subject.id
    IN  [avoidConsecutive |-> avoidConsecutive,
         coolDown |-> IF avoidConsecutive THEN 2 ELSE 0]

\* context.daysSinceLastStudy[subject.id]: reading a property of undefined
\* throws a TypeError when the context has no daysSinceLastStudy
revision_scheduling(subject, context) ==
    IF ~Has(context, "daysSinceLastStudy")
    THEN Thrown("TypeError")
    ELSE LET daysSinceLastStudy ==
                 LookupOrZero(context.daysSinceLastStudy, subject.id)
             needsRevision == daysSinceLastStudy >= REVISION_FREQUENCY
         IN  Ok([needsRevision |-> needsRevision,
                 revisionPriority |-> IF needsRevision THEN 15 ELSE 10])

\* ------------------------------------------- rules.js: calculateSubjectWeights
\* One subject: the five rules in order, then the difficulty weight.
\* weight is in hundredths: priority (units) x revision (tenths) x difficulty
\* (tenths); the product has at most two decimals, so toFixed(2) keeps it.
WeighSubject(subject, context) ==
    LET r1 == priority_allocation(subject, context)
        r2 == difficulty_adaptation(subject, context)
        r3 == time_preference(subject, context)
        r4 == consecutive_avoidance(subject, context)
        r5 == revision_scheduling(subject, context)
    IN  IF ~r5.ok THEN r5
        ELSE LET w1 == IF r1.weightMultiplier # 0 THEN r1.weightMultiplier ELSE 1
                 w5 == w1 * r5.val.revisionPriority
                 dw == IF DIFFICULTY_WEIGHTS(subject.difficulty) # 0
                       THEN DIFFICULTY_WEIGHTS(subject.difficulty) ELSE 10
             IN  Ok([id |-> subject.id,
                     priority |-> subject.priority,
                     difficulty |-> subject.difficulty,
                     weight |-> w5 * dw,
                     adjustments |->
                         [priority_allocation |-> r1,
                          difficulty_adaptation |-> r2,
                          time_preference |-> r3,
                          consecutive_avoidance |-> r4,
                          revision_scheduling |-> r5.val]])

\* a variant that reads context.daysSinceLastStudy before the map, and so
\* throws on a context without it even when there is no subject
calculateSubjectWeights_EagerContext(subjects, context) ==
    IF ~Has(context, "daysSinceLastStudy")
       \/ \E i \in 1..Len(subjects) : ~WeighSubject(subjects[i], context).ok
    THEN Thrown("TypeError")
    ELSE Ok([i \in 1..Len(subjects) |-> WeighSubject(subjects[i], context).val])

\* subjects.map(...): the first subject whose rule throws aborts the call
calculateSubjectWeights(subjects, context) ==
    IF \E i \in 1..Len(subjects) : ~WeighSubject(subjects[i], context).ok
    THEN Thrown("TypeError")
    ELSE Ok([i \in 1..Len(subjects) |-> WeighSubject(subjects[i], context).val])

\* ------------------------------------------------ rules.js: allocateDailyHours
\* the stable sort by priorityOrder (high 3, medium 2, low 1), for subjects
\* whose priority is one of the three
SortByPriority(allocs) ==
    SelectSeq(allocs, LAMBDA a : a.priority = "high")
    \o SelectSeq(allocs, LAMBDA a : a.priority = "medium")
    \o SelectSeq(allocs, LAMBDA a : a.priority = "low")

\* calculateSubjectWeights(subjects) is called without a context: context = {}
allocateDailyHours(subjects, totalDailyHours) ==
    LET weighted == calculateSubjectWeights(subjects, EmptyObject)
    IN  IF ~weighted.ok THEN weighted
        ELSE LET ws == weighted.val
                 totalWeight == SumSeq([i \in 1..Len(ws) |-> ws[i].weight])
                 allocations ==
                     [i \in 1..Len(ws) |->
                         [id |-> ws[i].id,
                          priority |-> ws[i].priority,
                          difficulty |-> ws[i].difficulty,
                          weight |-> ws[i].weight,
                          adjustments |-> ws[i].adjustments,
                          allocatedHours |->
                              RoundDiv(100 * ws[i].weight * totalDailyHours,
                                       totalWeight),
                          sessionsPerDay |->
                              Max2(1, CeilDiv(ws[i].weight * totalDailyHours,
                                              2 * totalWeight))]]
             IN  Ok(SortByPriority(allocations))

\* ------------------------- rules.js: getOptimalSessionLength, getBreakDuration
getOptimalSessionLength(subject, defaultSessionLength) ==
    LET weighted == calculateSubjectWeights(<<subject>>, EmptyObject)
    IN  IF ~weighted.ok THEN weighted
        ELSE LET adapted == weighted.val[1].adjustments
                               .difficulty_adaptation.adaptedSessionLength
             IN  Ok(IF Truthy(adapted) THEN adapted.v ELSE defaultSessionLength)

getBreakDuration(subject, defaultBreakDuration) ==
    LET weighted == calculateSubjectWeights(<<subject>>, EmptyObject)
    IN  IF ~weighted.ok THEN weighted
        ELSE LET m == weighted.val[1].adjustments
                         .difficulty_adaptation.breakMultiplier
                 multiplier == IF m # 0 THEN m ELSE 10
             IN  Ok(RoundDiv(defaultBreakDuration * multiplier, 10))

\* needsLongBreak with > for >=
needsLongBreak_Strict(consecutiveSessions, maxSessionsWithoutLongBreak) ==
    consecutiveSessions > maxSessionsWithoutLongBreak

needsLongBreak(consecutiveSessions, maxSessionsWithoutLongBreak) ==
    consecutiveSessions >= maxSessionsWithoutLongBreak

\* ------------------------------------------------- scheduler: SmartScheduler
\* null (no subject scheduled yet); subject ids are positive
NoSubject == 0

\* the fields the constructor sets
NewScheduler ==
    [schedule |-> << >>,
     currentDay |-> 0,
     context |-> [lastScheduledSubject |-> NoSubject,
                  daysSinceLastStudy |-> EmptyObject,
                  consecutiveSessions |-> 0,
                  sessionCountToday |-> 0]]

\* "H:MM AM/PM" as the record of its three parts
formatTime(minutes) ==
    LET hours == minutes \div 60
        mins == minutes % 60
        displayHours == IF hours % 12 # 0 THEN hours % 12 ELSE 12
    IN  [h |-> displayHours, m |-> mins,
         period |-> IF hours >= 12 THEN "PM" ELSE "AM"]

\* parseInt(slot.startTime.split(':')[0]): the displayed hour, 1..12
ParseHour(timeString) == timeString.h

IsSession(slot) == slot.type = STUDY \/ slot.type = REVISION

createSessionSlot(self, subject, startTimeMinutes, duration, dayIndex) ==
    LET daysSince == LookupOrZero(self.context.daysSinceLastStudy, subject.id)
    IN  [id |-> <<"session", subject.id, dayIndex, startTimeMinutes>>,
         type |-> IF daysSince >= REVISION_FREQUENCY THEN REVISION ELSE STUDY,
         subjectId |-> subject.id,
         priority |-> subject.priority,
         difficulty |-> subject.difficulty,
         startTime |-> formatTime(startTimeMinutes),
         endTime |-> formatTime(startTimeMinutes + duration),
         duration |-> duration,
         breakType |-> "none",
         completed |-> FALSE,
         day |-> dayIndex + 1]

\* a break has no subject; its day is read from this.currentDay
createBreakSlot(self, startTimeMinutes, duration, breakType) ==
    [id |-> <<"break", startTimeMinutes>>,
     type |-> BREAK,
     subjectId |-> NoSubject,
     priority |-> "none",
     difficulty |-> "none",
     startTime |-> formatTime(startTimeMinutes),
     endTime |-> formatTime(startTimeMinutes + duration),
     duration |-> duration,
     breakType |-> breakType,
     completed |-> FALSE,
     day |-> self.currentDay + 1]

NeedsRevision(self, subject) ==
    LookupOrZero(self.context.daysSinceLastStudy, subject.id)
        >= REVISION_FREQUENCY

\* selectTodaysSubjects taking up to 4 revision subjects, the cap of a
\* normal day
selectTodaysSubjects_FourRevision(self, allocations, dayIndex) ==
    LET revisionSubjects ==
            SelectSeq(allocations, LAMBDA s : NeedsRevision(self, s))
        availableSubjects ==
            SelectSeq(allocations,
                      LAMBDA s : 0 < s.allocatedHours * (dayIndex + 1))
        n == Len(availableSubjects)
        subjectsPerDay == Min2(n, 4)
        startIdx == IF n = 0 THEN 0
                    ELSE dayIndex % Max2(1, n \div subjectsPerDay)
    IN  IF Len(revisionSubjects) > 0
        THEN SubSeq(revisionSubjects, 1, Min2(4, Len(revisionSubjects)))
        ELSE SubSeq(availableSubjects, startIdx + 1,
                    Min2(n, startIdx + subjectsPerDay))

\* subject.hoursScheduled is never assigned anywhere: it reads as 0
selectTodaysSubjects(self, allocations, dayIndex) ==
    LET revisionSubjects ==
            SelectSeq(allocations, LAMBDA s : NeedsRevision(self, s))
        availableSubjects ==
            SelectSeq(allocations,
                      LAMBDA s : 0 < s.allocatedHours * (dayIndex + 1))
        n == Len(availableSubjects)
        subjectsPerDay == Min2(n, 4)
        startIdx == IF n = 0 THEN 0
                    ELSE dayIndex % Max2(1, n \div subjectsPerDay)
    IN  IF Len(revisionSubjects) > 0
        THEN SubSeq(revisionSubjects, 1, Min2(3, Len(revisionSubjects)))
        ELSE SubSeq(availableSubjects, startIdx + 1,
                    Min2(n, startIdx + subjectsPerDay))

\* the stable sort of todaysSubjects: revision need first, then priority
SortTodaysSubjects(self, todays) ==
    LET pick(rev, p) ==
            SelectSeq(todays,
                      LAMBDA s : NeedsRevision(self, s) = rev /\ s.priority = p)
    IN  pick(TRUE, "high") \o pick(TRUE, "medium") \o pick(TRUE, "low")
        \o pick(FALSE, "high") \o pick(FALSE, "medium") \o pick(FALSE, "low")

\* remainingHours > 0 where remainingHours may be undefined
Positive(x) == x.k = "num" /\ x.v > 0

\* The while loop of generateDaySchedule from loop state st:
\*   slots, currentTime, sessionCount, lastSubjectId, remaining (minutes of
\*   budget, a JavaScript number), subjectIndex, hoursScheduledToday.
RECURSIVE FillDay(_, _, _, _, _)
FillDay(self, st, todaysSubjects, dayIndex, sessionSettings) ==
    IF ~(Positive(st.remaining) /\ st.currentTime < 21 * 60) THEN Ok(st)
    ELSE IF Len(todaysSubjects) = 0 THEN Ok(st)
    ELSE
    LET subject == todaysSubjects[(st.subjectIndex % Len(todaysSubjects)) + 1]
    IN  IF subject.id = st.lastSubjectId /\ Len(todaysSubjects) > 1
        THEN FillDay(self, [st EXCEPT !.subjectIndex = @ + 1],
                     todaysSubjects, dayIndex, sessionSettings)
        ELSE
        LET sl == getOptimalSessionLength(subject, sessionSettings.sessionLength)
            bd == getBreakDuration(subject, sessionSettings.breakDuration)
        IN  IF ~sl.ok THEN sl
            ELSE IF ~bd.ok THEN bd
            ELSE
            LET sessionLength == sl.val
                breakDuration == bd.val
                sessionSlot == createSessionSlot(self, subject, st.currentTime,
                                                 sessionLength, dayIndex)
                t1 == st.currentTime + sessionLength
                rem == Num(st.remaining.v - sessionLength)
                count == st.sessionCount + 1
                long == needsLongBreak(count, MAX_SESSIONS_WITHOUT_LONG_BREAK)
                slots1 ==
                    IF long
                    THEN <<sessionSlot,
                           createBreakSlot(self, t1, LONG_BREAK_DURATION, "long")>>
                    ELSE IF Positive(rem)
                    THEN <<sessionSlot,
                           createBreakSlot(self, t1, breakDuration, "regular")>>
                    ELSE <<sessionSlot>>
                t2 == IF long THEN t1 + LONG_BREAK_DURATION
                      ELSE IF Positive(rem) THEN t1 + breakDuration
                      ELSE t1
                st2 == [slots |-> st.slots \o slots1,
                        currentTime |-> t2,
                        sessionCount |-> IF long THEN 0 ELSE count,
                        lastSubjectId |-> subject.id,
                        remaining |-> rem,
                        subjectIndex |-> st.subjectIndex + 1,
                        hoursScheduledToday |->
                            [i \in DOMAIN st.hoursScheduledToday \cup {subject.id}
                                |-> LookupOrZero(st.hoursScheduledToday, i)
                                    + (IF i = subject.id THEN sessionLength ELSE 0)]]
            IN  Bind(st2, LAMBDA next :
                    IF next.currentTime >= AVOID_LATE_NIGHT * 60 THEN Ok(next)
                    ELSE FillDay(self, next, todaysSubjects, dayIndex,
                                 sessionSettings))

\* daySlots.findIndex(slot => parseInt(hour of startTime) >= 12); 0 = not found
RECURSIVE FindLunchIndex(_, _)
FindLunchIndex(slots, i) ==
    IF i > Len(slots) THEN 0
    ELSE IF ParseHour(slots[i].startTime) >= 12 THEN i
    ELSE FindLunchIndex(slots, i + 1)

InsertLunch(self, slots, currentTime) ==
    LET lunchIndex == FindLunchIndex(slots, 1)
    IN  IF currentTime > 12 * 60 /\ currentTime < 14 * 60 /\ lunchIndex > 0
        THEN SubSeq(slots, 1, lunchIndex - 1)
             \o <<createBreakSlot(self, 12 * 60, 60, "lunch")>>
             \o SubSeq(slots, lunchIndex, Len(slots))
        ELSE slots

\* sessionSettings.dailyHours is read from the session settings object
\* (hours); totalStudyHours is kept in minutes.  The date of the day (read
\* from the start-date form field, display only) is left out.
generateDaySchedule(self, dayIndex, allocations, sessionSettings) ==
    LET todaysSubjects ==
            SortTodaysSubjects(self,
                               selectTodaysSubjects(self, allocations, dayIndex))
        st0 == [slots |-> << >>,
                currentTime |-> 9 * 60,
                sessionCount |-> 0,
                lastSubjectId |-> NoSubject,
                remaining |-> IF Has(sessionSettings, "dailyHours")
                              THEN Num(sessionSettings.dailyHours * 60)
                              ELSE Undef,
                subjectIndex |-> 0,
                hoursScheduledToday |-> EmptyObject]
    IN  Bind(FillDay(self, st0, todaysSubjects, dayIndex, sessionSettings),
             LAMBDA filled :
        IF ~filled.ok THEN filled
        ELSE LET daySlots == InsertLunch(self, filled.val.slots,
                                         filled.val.currentTime)
                 sessions == SelectSeq(daySlots, IsSession)
             IN  Ok([day |-> dayIndex + 1,
                     totalSessions |-> Len(sessions),
                     totalStudyHours |->
                         SumSeq([i \in 1..Len(sessions) |-> sessions[i].duration]),
                     slots |-> daySlots,
                     \* observation only (not a field of the JavaScript
                     \* object): the subjects selected for the day
                     todaysSubjects |-> todaysSubjects]))

\* updateContextAfterDay incrementing only the subjects without a session
\* today
updateContextAfterDay_SkipStudied(self, dayIndex, daySchedule) ==
    LET sessions == SelectSeq(daySchedule.slots, IsSession)
        studied == {sessions[i].subjectId : i \in 1..Len(sessions)}
        old == self.context.daysSinceLastStudy
    IN  [self EXCEPT
            !.context.daysSinceLastStudy =
                [i \in DOMAIN old \cup studied |->
                    IF i \in studied THEN 0 ELSE old[i] + 1],
            !.context.lastScheduledSubject =
                IF Len(sessions) > 0 THEN sessions[Len(sessions)].subjectId
                ELSE @,
            !.currentDay = dayIndex]

\* every subject with a session today is reset to 0, the last session's
\* subject is recorded, then every tracked subject is incremented
updateContextAfterDay(self, dayIndex, daySchedule) ==
    LET sessions == SelectSeq(daySchedule.slots, IsSession)
        studied == {sessions[i].subjectId : i \in 1..Len(sessions)}
        old == self.context.daysSinceLastStudy
        reset == [i \in DOMAIN old \cup studied |->
                     IF i \in studied THEN 0 ELSE old[i]]
    IN  [self EXCEPT
            !.context.daysSinceLastStudy = [i \in DOMAIN reset |-> reset[i] + 1],
            !.context.lastScheduledSubject =
                IF Len(sessions) > 0 THEN sessions[Len(sessions)].subjectId
                ELSE @,
            !.currentDay = dayIndex]

\* ------------------------------------------------- rules.js: validateSchedule
Violation(type, day, slot, subject) ==
    [type |-> type, day |-> day, slot |-> slot, subject |-> subject]

FindSubject(subjects, subjectId) ==
    SelectSeq(subjects, LAMBDA s : s.id = subjectId)

\* One slot of one day.  w is the walk state: consecutiveSameSubject,
\* lastSubjectId (both reset at the start of each day), violations and
\* lastSessionDay (the part of subjectStats the revision check reads).
ValidateSlot(w, slot, dayIndex, slotIndex, subjects) ==
    IF ~IsSession(slot) THEN Ok(w)
    ELSE
    LET subjectId == slot.subjectId
        same == subjectId = w.lastSubjectId
        count == IF same THEN w.consecutiveSameSubject + 1 ELSE 0
        v1 == IF same /\ count > 1
              THEN Append(w.violations,
                          Violation("consecutive_sessions", dayIndex,
                                    slotIndex, subjectId))
              ELSE w.violations
        w1 == [consecutiveSameSubject |-> count,
               lastSubjectId |-> subjectId,
               violations |-> v1,
               lastSessionDay |->
                   [i \in DOMAIN w.lastSessionDay \cup {subjectId} |->
                       IF i = subjectId THEN dayIndex ELSE w.lastSessionDay[i]]]
        found == FindSubject(subjects, subjectId)
    IN  IF found = << >> THEN Ok(w1)
        ELSE
        LET weighted == calculateSubjectWeights(<<found[1]>>, EmptyObject)
        IN  IF ~weighted.ok THEN weighted
            ELSE
            LET preferredSlots ==
                    weighted.val[1].adjustments.time_preference.preferredTimeSlots
                hour == ParseHour(slot.startTime)
            IN  IF Len(preferredSlots) = 2
                   /\ (hour < preferredSlots[1] \/ hour >= preferredSlots[2])
                THEN Ok([w1 EXCEPT !.violations =
                            Append(@, Violation("time_preference", dayIndex,
                                                slotIndex, subjectId))])
                ELSE Ok(w1)

RECURSIVE ValidateSlots(_, _, _, _, _)
ValidateSlots(w, slots, dayIndex, slotIndex, subjects) ==
    IF slotIndex >= Len(slots) THEN Ok(w)
    ELSE Bind(ValidateSlot(w, slots[slotIndex + 1], dayIndex, slotIndex, subjects),
              LAMBDA r : IF ~r.ok THEN r
                         ELSE ValidateSlots(r.val, slots, dayIndex,
                                            slotIndex + 1, subjects))

RECURSIVE ValidateDays(_, _, _, _)
ValidateDays(w, schedule, dayIndex, subjects) ==
    IF dayIndex >= Len(schedule) THEN Ok(w)
    ELSE Bind(ValidateSlots([w EXCEPT !.consecutiveSameSubject = 0,
                                      !.lastSubjectId = NoSubject],
                            schedule[dayIndex + 1].slots, dayIndex, 0, subjects),
              LAMBDA r : IF ~r.ok THEN r
                         ELSE ValidateDays(r.val, schedule, dayIndex + 1,
                                           subjects))

\* context.currentDay - stats.lastSessionDay > REVISION_FREQUENCY, for the
\* subjects of the list in list order; NaN (no currentDay) compares false
RevisionViolations(subjects, lastSessionDay, context) ==
    LET late == SelectSeq(subjects,
                    LAMBDA s : Has(context, "currentDay")
                               /\ context.currentDay - lastSessionDay[s.id]
                                      > REVISION_FREQUENCY)
    IN  [i \in 1..Len(late) |-> Violation("revision_needed", -1, -1, late[i].id)]

validateSchedule(schedule, subjects, context) ==
    LET w0 == [consecutiveSameSubject |-> 0,
               lastSubjectId |-> NoSubject,
               violations |-> << >>,
               lastSessionDay |->
                   [i \in {subjects[j].id : j \in 1..Len(subjects)} |-> -1]]
    IN  Bind(ValidateDays(w0, schedule, 0, subjects),
             LAMBDA walked :
                 IF ~walked.ok THEN walked
                 ELSE Bind(walked.val.violations
                           \o RevisionViolations(subjects,
                                                 walked.val.lastSessionDay,
                                                 context),
                           LAMBDA violations :
                               Ok([isValid |-> Len(violations) = 0,
                                   violations |-> violations])))

\* ------------------------- rules.js: calculateEfficiencyScore, generateSuggestions
\* schedule.flatMap(day => day.slots)
RECURSIVE AllSlots(_)
AllSlots(schedule) ==
    IF schedule = << >> THEN << >>
    ELSE Head(schedule).slots \o AllSlots(Tail(schedule))

\* The score from study minutes S and break minutes B:
\* min(100, round(max(0, 100 - |B/S - 17/52| * 1000) + bonus))
EfficiencyFormula(S, B) ==
    IF S = 0 THEN 0
    ELSE LET diff == 52 * B - 17 * S
             N == 1000 * (IF diff >= 0 THEN diff ELSE -diff)
             D == 52 * S
             breakBonus == IF 5 * B > S THEN 10 ELSE 0
         IN  IF N >= 100 * D THEN breakBonus
             ELSE Min2(100, RoundDiv((100 + breakBonus) * D - N, D))

calculateEfficiencyScore(schedule) ==
    LET slots == AllSlots(schedule)
        study == SelectSeq(slots, IsSession)
        breaks == SelectSeq(slots, LAMBDA s : s.type = BREAK)
    IN  EfficiencyFormula(SumSeq([i \in 1..Len(study) |-> study[i].duration]),
                          SumSeq([i \in 1..Len(breaks) |-> breaks[i].duration]))

Suggestion(type, action, priority) ==
    [type |-> type, action |-> action, priority |-> priority]

\* the switch on violation.type: one suggestion for each of the three
\* kinds, none for any other type (the switch has no default)
SuggestionFor(violation) ==
    CASE violation.type = "consecutive_sessions" ->
           <<Suggestion("warning", "reschedule", "medium")>>
      [] violation.type = "time_preference" ->
           <<Suggestion("info", "consider_reschedule", "low")>>
      [] violation.type = "revision_needed" ->
           <<Suggestion("important", "add_revision", "high")>>
      [] OTHER -> << >>

\* violations.forEach(...)
RECURSIVE SuggestionsFor(_)
SuggestionsFor(violations) ==
    IF violations = << >> THEN << >>
    ELSE SuggestionFor(Head(violations)) \o SuggestionsFor(Tail(violations))

\* generateSuggestions giving the tip on breaks from 6 sessions on
generateSuggestions_FromSix(violations, schedule) ==
    LET totalStudyTime == Len(SelectSeq(AllSlots(schedule), IsSession))
    IN  SuggestionsFor(violations)
        \o (IF totalStudyTime >= 6
            THEN <<Suggestion("tip", "increase_breaks", "medium")>> ELSE << >>)
        \o (IF calculateEfficiencyScore(schedule) < 70
            THEN <<Suggestion("tip", "optimize", "medium")>> ELSE << >>)

\* totalStudyTime is the number of study/revision sessions of the schedule
generateSuggestions(violations, schedule) ==
    LET totalStudyTime == Len(SelectSeq(AllSlots(schedule), IsSession))
    IN  SuggestionsFor(violations)
        \o (IF totalStudyTime > 6
            THEN <<Suggestion("tip", "increase_breaks", "medium")>> ELSE << >>)
        \o (IF calculateEfficiencyScore(schedule) < 70
            THEN <<Suggestion("tip", "optimize", "medium")>> ELSE << >>)

\* ------------------------------------------------ scheduler: generateSummary
\* hours are kept in tenths, the precision of toFixed(1)
generateSummary(allSlots, subjects, totalDays) ==
    LET studySlots == SelectSeq(allSlots, IsSession)
        breakSlots == SelectSeq(allSlots, LAMBDA s : s.type = BREAK)
        studyMinutes == SumSeq([i \in 1..Len(studySlots) |-> studySlots[i].duration])
        breakMinutes == SumSeq([i \in 1..Len(breakSlots) |-> breakSlots[i].duration])
    IN  [totalStudyHours |-> RoundDiv(10 * studyMinutes, 60),
         totalBreakHours |-> RoundDiv(10 * breakMinutes, 60),
         totalSessions |-> Len(studySlots),
         efficiencyScore |-> EfficiencyFormula(studyMinutes, breakMinutes)]

\* --------------------------------------------------- scheduler: generatePlan
\* The for loop over the days from day index `day`; self.schedule grows by
\* one DaySchedule per iteration and the context is updated after each.
RECURSIVE RunDays(_, _, _, _, _)
RunDays(self, day, totalDays, allocations, sessionSettings) ==
    IF day >= totalDays THEN [res |-> Ok(TRUE), self |-> self]
    ELSE Bind(generateDaySchedule(self, day, allocations, sessionSettings),
              LAMBDA d :
                  IF ~d.ok THEN [res |-> d, self |-> self]
                  ELSE Bind(updateContextAfterDay(
                                [self EXCEPT !.schedule = Append(@, d.val)],
                                day, d.val),
                            LAMBDA me : RunDays(me, day + 1, totalDays,
                                                allocations, sessionSettings)))

\* returns the result (a Plan or the exception) and the scheduler afterwards
generatePlan(self, inputs, subjects) ==
    Bind(allocateDailyHours(subjects, inputs.timeline.dailyHours),
         LAMBDA allocations :
    IF ~allocations.ok THEN [res |-> allocations, self |-> self]
    ELSE
    Bind(RunDays([self EXCEPT !.schedule = << >>], 0, inputs.timeline.totalDays,
                 allocations.val, inputs.sessionSettings),
         LAMBDA run :
    IF ~run.res.ok THEN run
    ELSE
    Bind(validateSchedule(run.self.schedule, subjects,
             [currentDay |-> run.self.currentDay,
              lastScheduledSubject |-> run.self.context.lastScheduledSubject,
              daysSinceLastStudy |-> run.self.context.daysSinceLastStudy,
              consecutiveSessions |-> run.self.context.consecutiveSessions,
              sessionCountToday |-> run.self.context.sessionCountToday]),
         LAMBDA validation :
    IF ~validation.ok THEN [res |-> validation, self |-> run.self]
    ELSE [res |-> Ok([schedule |-> run.self.schedule,
                      allocations |-> allocations.val,
                      validation |-> validation.val,
                      suggestions |->
                          generateSuggestions(validation.val.violations,
                                              run.self.schedule),
                      summary |->
                          generateSummary(AllSlots(run.self.schedule), subjects,
                                          inputs.timeline.totalDays)]),
          self |-> run.self])))

\* ------------------------------------------------- scheduler: exportSchedule
\* JSON.  A JavaScript value that is serialised is tagged with what it is:
\* null, undefined, an object (its properties) or an array (its items).  A
\* text is what JSON.stringify produced from a value (k = "json"), some
\* other non-empty text that is no JSON (k = "text"), or the null that
\* getItem returns for a missing key (k = "none").  Every value serialised
\* here is made of strings, finite numbers, booleans, arrays and objects, so
\* parsing the text of a value gives the value back.
JNull == [t |-> "null"]
JUndefined == [t |-> "undefined"]
JObj(props) == [t |-> "object", props |-> props]
JArr(items) == [t |-> "array", items |-> items]
JTruthy(v) == v.t \notin {"null", "undefined"}

JSONstringify(value) == [k |-> "json", v |-> value]
BadText == [k |-> "text", v |-> JUndefined]
NoItem == [k |-> "none", v |-> JUndefined]
JSONparse(text) ==
    IF text.k = "json" THEN Ok(text.v) ELSE Thrown("SyntaxError")

\* value.field where value is not null: undefined unless value is an object
\* that has the property
JGet(value, field) ==
    IF value.t = "object" /\ Has(value.props, field)
    THEN value.props[field] ELSE JUndefined

\* exportSchedule('json'): the schedule array itself, not a Plan object
exportSchedule(self, format) == JSONstringify(JArr(self.schedule))

\* ------------------------------------------------ storage.js: StorageManager
planKey == "smartStudyPlan"
prefsKey == "studyPreferences"
progressKey == "studyProgress"
StorageKeys == {planKey, prefsKey, progressKey}

\* nothing stored under any key
EmptyStorage == [key \in StorageKeys |-> NoItem]

getItem(store, key) == store[key]
setItem(store, key, text) == [store EXCEPT ![key] = text]

\* {...plan, savedAt, version} under the plan key
savePlan(store, plan) ==
    [res |-> TRUE,
     store |-> setItem(store, planKey,
                  JSONstringify(JObj([schedule |-> JArr(plan.schedule),
                                      allocations |-> plan.allocations,
                                      validation |-> plan.validation,
                                      suggestions |-> plan.suggestions,
                                      summary |-> plan.summary,
                                      savedAt |-> "now",
                                      version |-> "1.0"])))]

\* the item parsed, or null when it is missing or does not parse
LoadItem(store, key) ==
    LET data == getItem(store, key)
    IN  IF data.k = "none" THEN JNull
        ELSE IF JSONparse(data).ok THEN JSONparse(data).val ELSE JNull

loadPlan(store) == LoadItem(store, planKey)
loadProgress(store) == LoadItem(store, progressKey)

\* Object.keys(value).length
KeyCount(value) ==
    CASE value.t = "object" -> Cardinality(DOMAIN value.props)
      [] value.t = "array" -> Len(value.items)
      [] OTHER -> 0

\* {...progress, lastUpdated} under the progress key
saveProgress(store, progress) ==
    [res |-> TRUE,
     store |-> setItem(store, progressKey,
                  JSONstringify(JObj([f \in DOMAIN progress.props
                                            \cup {"lastUpdated"} |->
                                         IF f = "lastUpdated" THEN "now"
                                         ELSE progress.props[f]])))]

\* the stored progress, or a fresh one when nothing usable is stored, with
\* the session id set to the date or deleted, saved again.  Writing or
\* deleting a property of progress.completedSessions raises TypeError when
\* the stored progress has no completedSessions.
saveSessionCompletion(store, sessionId, completed) ==
    LET loaded == loadProgress(store)
        progress == IF JTruthy(loaded) THEN loaded
                    ELSE JObj([completedSessions |-> JObj(EmptyObject)])
        sessions == JGet(progress, "completedSessions")
    IN  IF ~JTruthy(sessions)
        THEN [res |-> Thrown("TypeError"), store |-> store]
        ELSE IF sessions.t # "object"
        THEN [res |-> Ok(TRUE), store |-> saveProgress(store, progress).store]
        ELSE LET keys == IF completed
                         THEN DOMAIN sessions.props \cup {sessionId}
                         ELSE DOMAIN sessions.props \ {sessionId}
                 updated == JObj([id \in keys |->
                                     IF id = sessionId THEN "now"
                                     ELSE sessions.props[id]])
             IN  [res |-> Ok(TRUE),
                  store |-> saveProgress(store,
                                [progress EXCEPT
                                    !.props.completedSessions = updated]).store]

\* toggleSessionCompletion(sessionId) on a current plan (with no current
\* plan the function returns at once): the first slot with the id, day by
\* day, has its flag inverted; the flag is recorded in the store; the
\* allocation of the slot's subject, when there is one, gains or loses the
\* duration (hoursCompleted is in minutes here, never below 0).  An
\* exception of saveSessionCompletion leaves the flag inverted and the
\* hours as they were.
toggleSessionCompletion(currentPlan, store, sessionId) ==
    LET schedule == currentPlan.schedule
        days == {d \in 1..Len(schedule) :
                    \E i \in 1..Len(schedule[d].slots) :
                        schedule[d].slots[i].id = sessionId}
    IN  IF days = {}
        THEN [res |-> Ok(TRUE), plan |-> currentPlan, store |-> store]
        ELSE LET d == CHOOSE x \in days : \A y \in days : x <= y
                 hits == {i \in 1..Len(schedule[d].slots) :
                             schedule[d].slots[i].id = sessionId}
                 i == CHOOSE x \in hits : \A y \in hits : x <= y
                 session == schedule[d].slots[i]
                 completed == ~session.completed
                 flipped == [currentPlan EXCEPT
                                !.schedule[d].slots[i].completed = completed]
                 saved == saveSessionCompletion(store, sessionId, completed)
                 allocations == currentPlan.allocations
                 owners == {k \in 1..Len(allocations) :
                               allocations[k].id = session.subjectId}
                 hours(a) == IF Has(a, "hoursCompleted")
                             THEN a.hoursCompleted ELSE 0
                 updated(a) ==
                     [f \in DOMAIN a \cup {"hoursCompleted"} |->
                         IF f # "hoursCompleted" THEN a[f]
                         ELSE IF completed THEN hours(a) + session.duration
                         ELSE Max2(0, hours(a) - session.duration)]
             IN  IF ~saved.res.ok
                 THEN [res |-> saved.res, plan |-> flipped, store |-> store]
                 ELSE [res |-> Ok(TRUE),
                       plan |-> [flipped EXCEPT !.allocations =
                                    [k \in 1..Len(allocations) |->
                                        IF owners # {}
                                           /\ k = CHOOSE x \in owners :
                                                      \A y \in owners : x <= y
                                        THEN updated(allocations[k])
                                        ELSE allocations[k]]],
                       store |-> saved.store]

\* completed: the keys of progress.completedSessions; total: the study and
\* revision slots of the stored plan (plan.schedule.forEach raises TypeError
\* when schedule is not an array)
getCompletionStats(store) ==
    LET progress == loadProgress(store)
        plan == loadPlan(store)
    IN  IF ~JTruthy(progress) \/ ~JTruthy(JGet(progress, "completedSessions"))
        THEN Ok([total |-> 0, completed |-> 0, percentage |-> 0])
        ELSE IF JTruthy(plan) /\ JTruthy(JGet(plan, "schedule"))
                /\ JGet(plan, "schedule").t # "array"
        THEN Thrown("TypeError")
        ELSE LET completed == KeyCount(JGet(progress, "completedSessions"))
                 total ==
                     IF JTruthy(plan) /\ JTruthy(JGet(plan, "schedule"))
                     THEN Len(SelectSeq(AllSlots(JGet(plan, "schedule").items),
                                        IsSession))
                     ELSE 0
             IN  Ok([total |-> total, completed |-> completed,
                     percentage |-> IF total > 0
                                    THEN RoundDiv(100 * completed, total)
                                    ELSE 0])

\* plan and progress go through the guarded loads; the preferences text is
\* parsed in place, outside any try
exportAllData(store) ==
    LET plan == loadPlan(store)
        progress == loadProgress(store)
        prefs == getItem(store, prefsKey)
    IN  IF prefs.k # "none" /\ ~JSONparse(prefs).ok THEN Thrown("SyntaxError")
        ELSE Ok(JSONstringify(JObj(
                 [metadata |-> [exportedAt |-> "now",
                                tool |-> "Smart Study Planner",
                                version |-> "1.0"],
                  plan |-> IF JTruthy(plan) THEN plan ELSE JNull,
                  progress |-> IF JTruthy(progress) THEN progress ELSE JNull,
                  preferences |-> IF prefs.k # "none"
                                  THEN JSONparse(prefs).val ELSE JNull])))

\* One `if (data.x) setItem(key, JSON.stringify(data.x))` of importData
ImportPart(store, data, field, key) ==
    IF JTruthy(JGet(data, field))
    THEN setItem(store, key, JSONstringify(JGet(data, field)))
    ELSE store

\* the three conditional writes, in the order plan, progress, preferences
ImportAll(store, data) ==
    ImportPart(ImportPart(ImportPart(store, data, "plan", planKey),
                          data, "progress", progressKey),
               data, "preferences", prefsKey)

\* importData without its try/catch: the parse error reaches the caller
importData_NoCatch(store, jsonString) ==
    LET parsed == JSONparse(jsonString)
    IN  IF ~parsed.ok THEN [res |-> parsed, store |-> store]
        ELSE IF parsed.val.t = "null"
        THEN [res |-> Thrown("TypeError"), store |-> store]
        ELSE [res |-> Ok([success |-> TRUE,
                          message |-> "Data imported successfully"]),
              store |-> ImportAll(store, parsed.val)]

\* The whole body is inside the try: a text that does not parse, and the
\* text "null" (data.plan of null raises TypeError), end in the catch
\* before anything is stored.
importData(store, jsonString) ==
    LET parsed == JSONparse(jsonString)
    IN  IF ~parsed.ok \/ parsed.val.t = "null"
        THEN [res |-> Ok([success |-> FALSE, message |-> "Invalid JSON format"]),
              store |-> store]
        ELSE [res |-> Ok([success |-> TRUE,
                          message |-> "Data imported successfully"]),
              store |-> ImportAll(store, parsed.val)]

\* InputManager.loadSavedPreferences: the stored text is parsed outside any
\* try; with nothing stored the default subjects are used
loadSavedPreferences(store) ==
    LET saved == getItem(store, prefsKey)
    IN  IF saved.k = "none" THEN Ok(JObj(EmptyObject))
        ELSE JSONparse(saved)

\* ------------------------------------------------------------ state machine
\* op/args/ret: the operation being called, its arguments and what it
\* returned or threw; scheduler: the fields of the SmartScheduler singleton;
\* localStorage: the browser's store, the text (or nothing) under each key.
VARIABLES op, args, ret, scheduler, localStorage

vars == <<op, args, ret, scheduler, localStorage>>

Priorities == {"high", "medium", "low"}
Difficulties == {"hard", "medium", "easy"}
SubjectKinds == [priority : Priorities, difficulty : Difficulties]

\* subject lists as the input manager builds them: unique ids, here 1..n
SubjectLists ==
    UNION {{[i \in 1..n |-> [id |-> i, priority |-> f[i].priority,
                             difficulty |-> f[i].difficulty]] :
                f \in [1..n -> SubjectKinds]} : n \in 0..MaxSubjects}

\* one-subject lists whose priority or difficulty is none of the three
\* values the form offers
OddSubjectLists ==
    {<<[id |-> 1, priority |-> p, difficulty |-> d]>> :
        p \in Priorities \cup {"urgent"}, d \in Difficulties \cup {"extreme"}}
    \ SubjectLists

DailyHoursChoices == {2, 4}
SessionLengthChoices == {30, 45, 60, 90}
BreakDurationChoices == {5, 10, 15}

\* what collectAllInputs returns: sessionSettings has no dailyHours
PlanInputs ==
    {[timeline |-> [totalDays |-> td, dailyHours |-> dh],
      sessionSettings |-> [sessionLength |-> sl, breakDuration |-> bd,
                           longBreakDuration |-> LONG_BREAK_DURATION]] :
        td \in 1..MaxDays, dh \in DailyHoursChoices,
        sl \in SessionLengthChoices, bd \in BreakDurationChoices}

\* contexts a caller can pass to calculateSubjectWeights
DaysSinceMaps ==
    UNION {[ids -> {0, REVISION_FREQUENCY}] : ids \in SUBSET (1..MaxSubjects)}
WeightContexts ==
    {EmptyObject}
    \cup {[daysSinceLastStudy |-> m] : m \in DaysSinceMaps}
    \cup {[daysSinceLastStudy |-> m, defaultSessionLength |-> sl] :
            m \in {EmptyObject}, sl \in SessionLengthChoices}

\* schedules handed to validateSchedule: slot i of a day starts at
\* 9:00 + (i-1) hours and lasts an hour; the session subjects are 1 (in the
\* subject list when that is not empty) and MaxSubjects + 1 (in it only
\* when the list has two subjects)
SlotKinds == {<<STUDY, 1>>, <<REVISION, MaxSubjects + 1>>, <<BREAK, NoSubject>>}

MakeSlot(kind, dayIndex, i) ==
    LET start == 9 * 60 + 60 * (i - 1)
    IN  [id |-> IF kind[1] = BREAK THEN <<"break", start>>
                ELSE <<"session", kind[2], dayIndex, start>>,
         type |-> kind[1],
         subjectId |-> kind[2],
         priority |-> IF kind[1] = BREAK THEN "none" ELSE "medium",
         difficulty |-> IF kind[1] = BREAK THEN "none" ELSE "medium",
         startTime |-> formatTime(start),
         endTime |-> formatTime(start + 60),
         duration |-> 60,
         breakType |-> IF kind[1] = BREAK THEN "regular" ELSE "none",
         completed |-> FALSE,
         day |-> dayIndex + 1]

DayKinds == UNION {[1..n -> SlotKinds] : n \in 0..MaxSlots}

MakeDay(kinds, dayIndex) ==
    LET slots == [i \in 1..Len(kinds) |-> MakeSlot(kinds[i], dayIndex, i)]
        sessions == SelectSeq(slots, IsSession)
    IN  [day |-> dayIndex + 1,
         totalSessions |-> Len(sessions),
         totalStudyHours |-> 60 * Len(sessions),
         slots |-> slots,
         todaysSubjects |-> << >>]

\* the schedule whose day d holds the slots of kinds[d]
InputSchedule(kinds) == [d \in 1..Len(kinds) |-> MakeDay(kinds[d], d - 1)]

ValidateSubjectLists ==
    {<< >>,
     <<[id |-> 1, priority |-> "medium", difficulty |-> "medium"]>>,
     <<[id |-> 1, priority |-> "medium", difficulty |-> "medium"],
       [id |-> MaxSubjects + 1, priority |-> "high", difficulty |-> "hard"]>>}
ValidateContexts == {EmptyObject, [currentDay |-> 5]}

Init ==
    /\ op = "idle"
    /\ args = << >>
    /\ ret = << >>
    /\ scheduler = NewScheduler
    /\ localStorage = EmptyStorage

\* scheduler.generatePlan(inputs, subjects)
CallGeneratePlan ==
    /\ op = "idle"
    /\ \E inputs \in PlanInputs, subjects \in SubjectLists :
          LET r == generatePlan(scheduler, inputs, subjects)
          IN  /\ op' = "generatePlan"
              /\ args' = [inputs |-> inputs, subjects |-> subjects]
              /\ ret' = r.res
              /\ scheduler' = r.self
    /\ UNCHANGED localStorage

\* rulesEngine.calculateSubjectWeights(subjects, context)
CallCalculateSubjectWeights ==
    /\ op = "idle"
    /\ \E subjects \in SubjectLists \cup OddSubjectLists,
          context \in WeightContexts :
          /\ op' = "calculateSubjectWeights"
          /\ args' = [subjects |-> subjects, context |-> context]
          /\ ret' = calculateSubjectWeights(subjects, context)
    /\ UNCHANGED <<scheduler, localStorage>>

\* rulesEngine.allocateDailyHours(subjects, totalDailyHours)
CallAllocateDailyHours ==
    /\ op = "idle"
    /\ \E subjects \in SubjectLists \cup OddSubjectLists,
          totalDailyHours \in DailyHoursChoices :
          /\ op' = "allocateDailyHours"
          /\ args' = [subjects |-> subjects, totalDailyHours |-> totalDailyHours]
          /\ ret' = allocateDailyHours(subjects, totalDailyHours)
    /\ UNCHANGED <<scheduler, localStorage>>

\* rulesEngine.getOptimalSessionLength(subject, defaultSessionLength)
CallGetOptimalSessionLength ==
    /\ op = "idle"
    /\ \E kind \in SubjectKinds, d \in SessionLengthChoices :
          LET subject == [id |-> 1, priority |-> kind.priority,
                          difficulty |-> kind.difficulty]
          IN  /\ op' = "getOptimalSessionLength"
              /\ args' = [subject |-> subject, defaultSessionLength |-> d]
              /\ ret' = getOptimalSessionLength(subject, d)
    /\ UNCHANGED <<scheduler, localStorage>>

\* rulesEngine.getBreakDuration(subject, defaultBreakDuration)
CallGetBreakDuration ==
    /\ op = "idle"
    /\ \E kind \in SubjectKinds, b \in BreakDurationChoices :
          LET subject == [id |-> 1, priority |-> kind.priority,
                          difficulty |-> kind.difficulty]
          IN  /\ op' = "getBreakDuration"
              /\ args' = [subject |-> subject, defaultBreakDuration |-> b]
              /\ ret' = getBreakDuration(subject, b)
    /\ UNCHANGED <<scheduler, localStorage>>

\* rulesEngine.validateSchedule(schedule, subjects, context)
CallValidateSchedule ==
    /\ op = "idle"
    /\ \E n \in 1..MaxValDays, subjects \in ValidateSubjectLists,
          context \in ValidateContexts :
          \E kinds \in [1..n -> DayKinds] :
              /\ op' = "validateSchedule"
              /\ args' = [schedule |-> InputSchedule(kinds),
                          subjects |-> subjects, context |-> context]
              /\ ret' = validateSchedule(InputSchedule(kinds), subjects,
                                         context)
    /\ UNCHANGED <<scheduler, localStorage>>

\* the call is over; the singleton keeps its fields
Return ==
    /\ op # "idle"
    /\ op' = "idle"
    /\ args' = << >>
    /\ ret' = << >>
    /\ UNCHANGED <<scheduler, localStorage>>

Next ==
    \/ CallGeneratePlan
    \/ CallCalculateSubjectWeights
    \/ CallAllocateDailyHours
    \/ CallGetOptimalSessionLength
    \/ CallGetBreakDuration
    \/ CallValidateSchedule
    \/ Return

Spec == Init /\ [][Next]_vars

\* ------------------------------------------ state machine: whole plans only
\* generatePlan called again and again on the one scheduler, as the
\* application does on every press of the generate button
NextPlan ==
    \/ CallGeneratePlan
    \/ Return

SpecPlan == Init /\ [][NextPlan]_vars

\* ------------------------------------------- state machine: the stored data
\* The StorageManager operations, the scheduler's export and the input
\* manager's load of the saved preferences, over a store that may hold
\* anything when the page loads: nothing, a text written by an earlier
\* session, or a text that is no JSON.

\* schedules of stored plans: a day without slots (what a run over an empty
\* subject list leaves), a day with two sessions around a break and a day
\* with one session of another subject
StoredSchedules ==
    {<<MakeDay(<< >>, 0)>>,
     <<MakeDay(<<<<STUDY, 1>>, <<BREAK, NoSubject>>, <<STUDY, 1>>>>, 0)>>,
     <<MakeDay(<<<<REVISION, MaxSubjects + 1>>>>, 0)>>}

\* the Plan object generatePlan assembles around a schedule
MakePlan(schedule) ==
    [schedule |-> schedule,
     allocations |-> << >>,
     validation |-> [isValid |-> TRUE, violations |-> << >>],
     suggestions |-> generateSuggestions(<< >>, schedule),
     summary |-> generateSummary(AllSlots(schedule), << >>, Len(schedule))]

StoredPlans == {MakePlan(s) : s \in StoredSchedules}

\* what saveProgress writes: completedSessions maps session ids to dates
StoredProgress ==
    {JObj([completedSessions |-> JObj(EmptyObject), lastUpdated |-> "now"]),
     JObj([completedSessions |->
               JObj([id \in {<<"session", 1, 0, 9 * 60>>} |-> "now"]),
           lastUpdated |-> "now"])}

\* what savePreferences writes
StoredPreferences ==
    {JObj([subjects |-> JArr(<< >>),
           preferences |-> JObj([dailyHours |-> 4, sessionLength |-> 45,
                                 breakDuration |-> 10])])}

\* the store when the page loads: under each key nothing, a text that is
\* no JSON, or what an earlier session wrote there
InitialStores ==
    LET planTexts ==
            {NoItem, BadText}
            \cup {savePlan(EmptyStorage, plan).store[planKey] :
                     plan \in StoredPlans}
        progressTexts ==
            {NoItem, BadText} \cup {JSONstringify(p) : p \in StoredProgress}
        preferencesTexts ==
            {NoItem, BadText} \cup {JSONstringify(p) : p \in StoredPreferences}
    IN  {[key \in StorageKeys |->
             CASE key = planKey -> p
               [] key = progressKey -> g
               [] OTHER -> f] :
            p \in planTexts, g \in progressTexts, f \in preferencesTexts}

\* the scheduler as a planning run leaves it: only a run over an empty
\* subject list completes
PlannedSchedulers ==
    {NewScheduler}
    \cup {generatePlan(NewScheduler, inputs, << >>).self : inputs \in PlanInputs}

\* texts handed to importData: the scheduler's JSON export, a backup made
\* by exportAllData, the text "null" and a text that is no JSON
ImportTexts(self) ==
    {exportSchedule(self, "json"), JSONstringify(JNull), BadText}
    \cup {exportAllData(store).val :
             store \in {s \in InitialStores : exportAllData(s).ok}}

InitStore ==
    /\ op = "idle"
    /\ args = << >>
    /\ ret = << >>
    /\ scheduler \in PlannedSchedulers
    /\ localStorage \in InitialStores

\* scheduler.exportSchedule('json')
CallExportSchedule ==
    /\ op = "idle"
    /\ op' = "exportSchedule"
    /\ args' = [format |-> "json"]
    /\ ret' = Ok(exportSchedule(scheduler, "json"))
    /\ UNCHANGED <<scheduler, localStorage>>

\* storageManager.savePlan(plan)
CallSavePlan ==
    /\ op = "idle"
    /\ \E plan \in StoredPlans :
          /\ op' = "savePlan"
          /\ args' = [plan |-> plan]
          /\ ret' = Ok(savePlan(localStorage, plan).res)
          /\ localStorage' = savePlan(localStorage, plan).store
    /\ UNCHANGED scheduler

\* storageManager.loadPlan()
CallLoadPlan ==
    /\ op = "idle"
    /\ op' = "loadPlan"
    /\ args' = << >>
    /\ ret' = Ok(loadPlan(localStorage))
    /\ UNCHANGED <<scheduler, localStorage>>

\* storageManager.loadProgress()
CallLoadProgress ==
    /\ op = "idle"
    /\ op' = "loadProgress"
    /\ args' = << >>
    /\ ret' = Ok(loadProgress(localStorage))
    /\ UNCHANGED <<scheduler, localStorage>>

\* storageManager.getCompletionStats()
CallGetCompletionStats ==
    /\ op = "idle"
    /\ op' = "getCompletionStats"
    /\ args' = << >>
    /\ ret' = getCompletionStats(localStorage)
    /\ UNCHANGED <<scheduler, localStorage>>

\* storageManager.saveSessionCompletion(sessionId, completed), as
\* toggleSessionCompletion calls it: with the id of a study or revision
\* slot of a plan (only those carry the button)
CallSaveSessionCompletion ==
    /\ op = "idle"
    /\ \E plan \in StoredPlans, completed \in BOOLEAN :
          \E i \in 1..Len(AllSlots(plan.schedule)) :
              LET sessionId == AllSlots(plan.schedule)[i].id
                  r == saveSessionCompletion(localStorage, sessionId, completed)
              IN  /\ IsSession(AllSlots(plan.schedule)[i])
                  /\ op' = "saveSessionCompletion"
                  /\ args' = [sessionId |-> sessionId, completed |-> completed]
                  /\ ret' = r.res
                  /\ localStorage' = r.store
    /\ UNCHANGED scheduler

\* storageManager.exportAllData()
CallExportAllData ==
    /\ op = "idle"
    /\ op' = "exportAllData"
    /\ args' = << >>
    /\ ret' = exportAllData(localStorage)
    /\ UNCHANGED <<scheduler, localStorage>>

\* storageManager.importData(jsonString); before: the store at the call
CallImportData ==
    /\ op = "idle"
    /\ \E jsonString \in ImportTexts(scheduler) :
          /\ op' = "importData"
          /\ args' = [jsonString |-> jsonString, before |-> localStorage]
          /\ ret' = importData(localStorage, jsonString).res
          /\ localStorage' = importData(localStorage, jsonString).store
    /\ UNCHANGED scheduler

\* new InputManager(): loadSavedPreferences()
CallLoadSavedPreferences ==
    /\ op = "idle"
    /\ op' = "loadSavedPreferences"
    /\ args' = << >>
    /\ ret' = loadSavedPreferences(localStorage)
    /\ UNCHANGED <<scheduler, localStorage>>

NextStore ==
    \/ CallExportSchedule
    \/ CallSavePlan
    \/ CallLoadPlan
    \/ CallLoadProgress
    \/ CallGetCompletionStats
    \/ CallSaveSessionCompletion
    \/ CallExportAllData
    \/ CallImportData
    \/ CallLoadSavedPreferences
    \/ Return

SpecStore == InitStore /\ [][NextStore]_vars

\* ------------------------------------------------- allocation lists
\* the allocation lists handed to the day loop's methods
MaxAllocs == 5

\* subjects by registration: the id is the position in the list
Registrations ==
    UNION {[1..n -> {<<"high", 80>>, <<"low", 80>>, <<"low", 0>>}] :
              n \in 0..MaxAllocs}

\* the allocations of a registration list (the fields the selection and the
\* sort of the day read), in the order allocateDailyHours returns them
AllocationsOf(registration) ==
    SortByPriority([i \in 1..Len(registration) |->
                       [id |-> i,
                        priority |-> registration[i][1],
                        difficulty |-> "medium",
                        allocatedHours |-> registration[i][2]]])

\* --------------------------------------- state machine: the end of each day
\* generateDaySchedule, updateContextAfterDay and needsLongBreak called on
\* the scheduler as the day loop calls them: day after day from the
\* constructor's context.
MaxDaysSince == 4
MaxCount == 5

SessionCounts == -1..MaxCount

InitDay ==
    /\ op = "idle"
    /\ args = << >>
    /\ ret = << >>
    /\ scheduler = NewScheduler
    /\ localStorage = EmptyStorage

\* this.updateContextAfterDay(day, daySchedule); before: the context at the
\* call.  The counters are capped at MaxDaysSince.
CallUpdateContextAfterDay ==
    /\ op = "idle"
    /\ \A id \in DOMAIN scheduler.context.daysSinceLastStudy :
          scheduler.context.daysSinceLastStudy[id] < MaxDaysSince
    /\ \E dayIndex \in 0..(MaxDays - 1), kinds \in DayKinds :
          /\ op' = "updateContextAfterDay"
          /\ args' = [dayIndex |-> dayIndex,
                      daySchedule |-> MakeDay(kinds, dayIndex),
                      before |-> scheduler.context]
          /\ ret' = Ok(TRUE)
          /\ scheduler' = updateContextAfterDay(scheduler, dayIndex,
                                                MakeDay(kinds, dayIndex))
    /\ UNCHANGED localStorage

\* rulesEngine.needsLongBreak(consecutiveSessions, maxSessionsWithoutLongBreak)
CallNeedsLongBreak ==
    /\ op = "idle"
    /\ \E n \in SessionCounts, k \in SessionCounts :
          /\ op' = "needsLongBreak"
          /\ args' = [consecutiveSessions |-> n,
                      maxSessionsWithoutLongBreak |-> k]
          /\ ret' = Ok(needsLongBreak(n, k))
    /\ UNCHANGED <<scheduler, localStorage>>

\* this.generateDaySchedule(day, allocations, sessionSettings) on the
\* context the days so far have left.  The session settings are those of
\* collectAllInputs (sessionLength, breakDuration, longBreakDuration) or, for
\* a caller that puts the budget where the fill loop reads it, the same with
\* dailyHours added.  The call leaves the scheduler's fields alone.
CallGenerateDaySchedule ==
    /\ op = "idle"
    /\ \E dayIndex \in 0..(MaxDays - 1), registration \in Registrations,
          inputs \in PlanInputs, withBudget \in BOOLEAN :
          /\ Len(registration) <= MaxSubjects
          /\ inputs.timeline.totalDays = 1
          /\ LET sessionSettings ==
                     IF withBudget
                     THEN [sessionLength |-> inputs.sessionSettings.sessionLength,
                           breakDuration |-> inputs.sessionSettings.breakDuration,
                           longBreakDuration |-> LONG_BREAK_DURATION,
                           dailyHours |-> inputs.timeline.dailyHours]
                     ELSE inputs.sessionSettings
             IN  /\ op' = "generateDaySchedule"
                 /\ args' = [dayIndex |-> dayIndex,
                             allocations |-> AllocationsOf(registration),
                             sessionSettings |-> sessionSettings]
                 /\ ret' = generateDaySchedule(scheduler, dayIndex,
                                               AllocationsOf(registration),
                                               sessionSettings)
    /\ UNCHANGED <<scheduler, localStorage>>

NextDay ==
    \/ CallUpdateContextAfterDay
    \/ CallNeedsLongBreak
    \/ CallGenerateDaySchedule
    \/ Return

SpecDay == InitDay /\ [][NextDay]_vars

\* ------------------------------- state machine: the selection of the subjects
\* selectTodaysSubjects called as generateDaySchedule calls it at the start
\* of a day: on the allocation list (sorted by priority, as
\* allocateDailyHours returns it) and with the day index the number of days
\* scheduled so far.
\* the days scheduled so far: each without slot or with three sessions of
\* subject 1
PastSchedules ==
    UNION {{[d \in 1..n |->
                MakeDay(IF f[d] THEN <<<<STUDY, 1>>, <<STUDY, 1>>, <<STUDY, 1>>>>
                        ELSE << >>, d - 1)] :
              f \in [1..n -> BOOLEAN]} : n \in 0..(MaxDays - 1)}

\* the counters at the start of the day: the first k subjects are tracked,
\* each below the revision threshold or at it
TrackedCounters ==
    UNION {[1..k -> {1, REVISION_FREQUENCY}] : k \in 0..MaxAllocs}

InitSelect ==
    /\ op = "idle"
    /\ args = << >>
    /\ ret = << >>
    /\ \E past \in PastSchedules, counters \in TrackedCounters :
          \* a subject with a session so far is tracked, and its counter
          \* is 1 when the session was on the last day
          /\ \A d \in 1..Len(past) :
                \A id \in {past[d].slots[i].subjectId :
                               i \in 1..Len(past[d].slots)} :
                    /\ id \in DOMAIN counters
                    /\ d = Len(past) => counters[id] = 1
          /\ scheduler = [NewScheduler EXCEPT
                             !.schedule = past,
                             !.currentDay = Max2(0, Len(past) - 1),
                             !.context.daysSinceLastStudy = counters]
    /\ localStorage = EmptyStorage

\* this.selectTodaysSubjects(allocations, dayIndex)
CallSelectTodaysSubjects ==
    /\ op = "idle"
    /\ \E registration \in Registrations :
          /\ op' = "selectTodaysSubjects"
          /\ args' = [allocations |-> AllocationsOf(registration),
                      dayIndex |-> Len(scheduler.schedule)]
          /\ ret' = Ok(selectTodaysSubjects(scheduler,
                                            AllocationsOf(registration),
                                            Len(scheduler.schedule)))
    /\ UNCHANGED <<scheduler, localStorage>>

NextSelect ==
    \/ CallSelectTodaysSubjects
    \/ Return

SpecSelect == InitSelect /\ [][NextSelect]_vars

\* --------------------------------------------- state machine: the day loop
\* The for loop of generatePlan (generateDaySchedule, push,
\* updateContextAfterDay for day index 0..totalDays-1) run on an allocation
\* list, from a context in which the first k subjects are tracked: the
\* scheduler is a singleton and generatePlan resets this.schedule only, so a
\* run starts from the counters the days before it have left.
MaxRunDays == 3

InitRun ==
    /\ op = "idle"
    /\ args = << >>
    /\ ret = << >>
    /\ \E k \in 0..MaxSubjects :
          \E counters \in [1..k -> {1, REVISION_FREQUENCY}] :
              scheduler = [NewScheduler EXCEPT
                              !.context.daysSinceLastStudy = counters]
    /\ localStorage = EmptyStorage

\* for (let day = 0; day < totalDays; day++) { ... } after this.schedule = [].
\* The counters are capped at MaxDaysSince at the start of a run.
CallRunDays ==
    /\ op = "idle"
    /\ \A id \in DOMAIN scheduler.context.daysSinceLastStudy :
          scheduler.context.daysSinceLastStudy[id] < MaxDaysSince
    /\ \E totalDays \in 1..MaxRunDays, registration \in Registrations,
          inputs \in PlanInputs, withBudget \in BOOLEAN :
          /\ Len(registration) <= MaxSubjects
          /\ inputs.timeline.totalDays = 1
          /\ LET sessionSettings ==
                     IF withBudget
                     THEN [sessionLength |-> inputs.sessionSettings.sessionLength,
                           breakDuration |-> inputs.sessionSettings.breakDuration,
                           longBreakDuration |-> LONG_BREAK_DURATION,
                           dailyHours |-> inputs.timeline.dailyHours]
                     ELSE inputs.sessionSettings
                 run == RunDays([scheduler EXCEPT !.schedule = << >>], 0,
                                totalDays, AllocationsOf(registration),
                                sessionSettings)
             IN  /\ op' = "runDays"
                 /\ args' = [totalDays |-> totalDays,
                             allocations |-> AllocationsOf(registration),
                             sessionSettings |-> sessionSettings,
                             before |-> scheduler.context]
                 /\ ret' = run.res
                 /\ scheduler' = run.self
    /\ UNCHANGED localStorage

NextRun ==
    \/ CallRunDays
    \/ Return

SpecRun == InitRun /\ [][NextRun]_vars

\* ------------------------------------------ state machine: the suggestions
\* generateSuggestions called on the violations of a validation and on a
\* schedule.  A violation is of one of the three kinds validateSchedule
\* emits.  A day of the schedule holds up to MaxDaySessions one-hour
\* sessions from 9:00 on, each followed by a break of the schedule's break
\* length when that is not 0.
MaxViolations == 3
MaxAdviceDays == 2
MaxDaySessions == 4

ViolationLists ==
    UNION {[1..n -> {Violation("consecutive_sessions", 0, 1, 1),
                     Violation("time_preference", 0, 0, 1),
                     Violation("revision_needed", -1, -1, 1)}] :
              n \in 0..MaxViolations}

\* no break, and breaks that put the score just below and above 70
BreakLengths == {0, 17, 18}

AdviceDay(nSessions, breakLength, dayIndex) ==
    LET self == [NewScheduler EXCEPT !.currentDay = dayIndex]
        subject == [id |-> 1, priority |-> "medium", difficulty |-> "medium"]
        pair(i) ==
            LET start == 9 * 60 + (i - 1) * (60 + breakLength)
            IN  <<createSessionSlot(self, subject, start, 60, dayIndex)>>
                \o (IF breakLength > 0
                    THEN <<createBreakSlot(self, start + 60, breakLength,
                                           "regular")>>
                    ELSE << >>)
        slots == AllSlots([i \in 1..nSessions |-> [slots |-> pair(i)]])
    IN  [day |-> dayIndex + 1,
         totalSessions |-> nSessions,
         totalStudyHours |-> 60 * nSessions,
         slots |-> slots,
         todaysSubjects |-> <<subject>>]

\* rulesEngine.generateSuggestions(violations, schedule)
CallGenerateSuggestions ==
    /\ op = "idle"
    /\ \E violations \in ViolationLists, n \in 1..MaxAdviceDays,
          breakLength \in BreakLengths :
          \E sessions \in [1..n -> 0..MaxDaySessions] :
              LET schedule == [d \in 1..n |->
                                  AdviceDay(sessions[d], breakLength, d - 1)]
              IN  /\ op' = "generateSuggestions"
                  /\ args' = [violations |-> violations, schedule |-> schedule]
                  /\ ret' = Ok(generateSuggestions(violations, schedule))
    /\ UNCHANGED <<scheduler, localStorage>>

NextAdvice ==
    \/ CallGenerateSuggestions
    \/ Return

SpecAdvice == Init /\ [][NextAdvice]_vars

\* ------------------------------------------------------------------ claims
SessionsOf(day) == SelectSeq(day.slots, IsSession)
DistinctSubjects(day) ==
    {SessionsOf(day)[i].subjectId : i \in 1..Len(SessionsOf(day))}

\* minutes since midnight of a formatted time of day
ToMinutes(t) == ((t.h % 12) + (IF t.period = "PM" THEN 12 ELSE 0)) * 60 + t.m

\* sessions of the day whose preceding session (breaks ignored) has the
\* same subject
RepeatBoundaries(day) ==
    Cardinality({i \in 2..Len(SessionsOf(day)) :
                    SessionsOf(day)[i].subjectId = SessionsOf(day)[i - 1].subjectId})

CountOfType(violations, type) ==
    Cardinality({i \in 1..Len(violations) : violations[i].type = type})

SubjectIds(subjects) == {subjects[i].id : i \in 1..Len(subjects)}

\* a generatePlan call that honours the input contract: at least one
\* subject (dailyHours, totalDays and the session settings are within the
\* contract for every element of PlanInputs)
ValidPlanCall == op = "generatePlan" /\ Len(args.subjects) >= 1

\* C1: for every input that honours the input contract, generatePlan
\* completes without raising and returns a Plan whose schedule has exactly
\* totalDays days numbered 1..totalDays, with allocations, validation,
\* suggestions and summary.
C1_GeneratePlanCompletes ==
    ValidPlanCall =>
        /\ ret.ok
        /\ DOMAIN ret.val = {"schedule", "allocations", "validation",
                             "suggestions", "summary"}
        /\ Len(ret.val.schedule) = args.inputs.timeline.totalDays
        /\ \A i \in 1..Len(ret.val.schedule) : ret.val.schedule[i].day = i

\* C2: the 1-day plan with dailyHours = 2, sessionLength = 60 and one
\* medium-difficulty subject starts with a 60-minute study session from
\* 9:00 AM to 10:00 AM and has exactly two study sessions (2 study hours).
C2_OneDayPlanHasTwoSessions ==
    ( /\ op = "generatePlan"
      /\ args.inputs.timeline.totalDays = 1
      /\ args.inputs.timeline.dailyHours = 2
      /\ args.inputs.sessionSettings.sessionLength = 60
      /\ Len(args.subjects) = 1
      /\ args.subjects[1].difficulty = "medium" )
    =>  /\ ret.ok
        /\ Len(ret.val.schedule) = 1
        /\ Len(ret.val.schedule[1].slots) >= 1
        /\ LET first == ret.val.schedule[1].slots[1]
           IN  /\ first.type = STUDY
               /\ first.duration = 60
               /\ first.startTime = [h |-> 9, m |-> 0, period |-> "AM"]
               /\ first.endTime = [h |-> 10, m |-> 0, period |-> "AM"]
        /\ Len(SessionsOf(ret.val.schedule[1])) = 2
        /\ ret.val.schedule[1].totalStudyHours = 2 * 60

\* every DaySchedule the scheduler holds or a generatePlan call returned
GeneratedDays ==
    {scheduler.schedule[i] : i \in 1..Len(scheduler.schedule)}
    \cup (IF op = "generatePlan" /\ ret.ok
          THEN {ret.val.schedule[i] : i \in 1..Len(ret.val.schedule)}
          ELSE {})

\* C3: in a generated day for which at least 2 distinct subjects were
\* selected, no two successive sessions (breaks ignored) have the same
\* subject.
C3_NoBackToBackSameSubject ==
    \A day \in GeneratedDays :
        Cardinality(SubjectIds(day.todaysSubjects)) >= 2
            => RepeatBoundaries(day) = 0

\* C4: in a generated day every slot starts at or after the end of the slot
\* before it.
C4_SlotsOrderedNonOverlapping ==
    \A day \in GeneratedDays :
        \A i \in 2..Len(day.slots) :
            ToMinutes(day.slots[i].startTime) >= ToMinutes(day.slots[i - 1].endTime)

\* C3, C4: no generated day ever holds a slot (every run over a non-empty
\* subject list ends in the TypeError before its first day), so the two
\* formulas above hold with nothing to range over.
NoGeneratedSlot == \A day \in GeneratedDays : day.slots = << >>

\* C5: for every non-empty subject list, the allocatedHours returned by
\* allocateDailyHours sum to totalDailyHours (to 1e-6; allocatedHours are
\* multiples of 0.01, so the sums are equal).
C5_AllocationsSumToTotal ==
    (op = "allocateDailyHours" /\ Len(args.subjects) >= 1) =>
        /\ ret.ok
        /\ SumSeq([i \in 1..Len(ret.val) |-> ret.val[i].allocatedHours])
               = 100 * args.totalDailyHours

\* C6: getOptimalSessionLength returns at most 45 for a hard subject and at
\* least 60 for an easy subject, whatever the default.
C6_SessionLengthClamped ==
    op = "getOptimalSessionLength" =>
        /\ ret.ok
        /\ args.subject.difficulty = "hard" => ret.val <= 45
        /\ args.subject.difficulty = "easy" => ret.val >= 60

\* C7: allocateDailyHours([{high, hard}, {medium, medium}], 4) returns two
\* allocations with weights 4.5 and 2 and allocatedHours within 0.01 of
\* 3.08 and 1.38.
C7_ConcreteAllocation ==
    ( /\ op = "allocateDailyHours"
      /\ args.totalDailyHours = 4
      /\ args.subjects = <<[id |-> 1, priority |-> "high", difficulty |-> "hard"],
                           [id |-> 2, priority |-> "medium", difficulty |-> "medium"]>> )
    =>  /\ ret.ok
        /\ Len(ret.val) = 2
        /\ ret.val[1].weight = 450
        /\ ret.val[2].weight = 200
        /\ ret.val[1].allocatedHours \in 307..309
        /\ ret.val[2].allocatedHours \in 137..139

\* C8: getBreakDuration(subject, b) is round(b x 1.5) for a hard subject,
\* round(b x 0.8) for an easy one and b for a medium one.
C8_BreakDurationScaled ==
    op = "getBreakDuration" =>
        /\ ret.ok
        /\ ret.val =
             (CASE args.subject.difficulty = "hard" ->
                     RoundDiv(args.defaultBreakDuration * 15, 10)
                [] args.subject.difficulty = "easy" ->
                     RoundDiv(args.defaultBreakDuration * 8, 10)
                [] OTHER -> args.defaultBreakDuration)

\* the subjects available on a day of a schedule handed to validateSchedule:
\* those of the subject list and those with a session on the day
AvailableSubjects(day, subjects) == SubjectIds(subjects) \cup DistinctSubjects(day)

RECURSIVE ExpectedConsecutive(_, _)
ExpectedConsecutive(schedule, subjects) ==
    IF schedule = << >> THEN 0
    ELSE (IF Cardinality(AvailableSubjects(Head(schedule), subjects)) >= 2
          THEN RepeatBoundaries(Head(schedule)) ELSE 0)
         + ExpectedConsecutive(Tail(schedule), subjects)

\* C9: the number of consecutive_sessions violations validateSchedule
\* reports is the number of repeat boundaries on days with at least 2
\* subjects available: one per session whose preceding session of the day
\* has the same subject, the first repeat included.
C9_OneViolationPerRepeat ==
    (op = "validateSchedule" /\ ret.ok) =>
        CountOfType(ret.val.violations, "consecutive_sessions")
            = ExpectedConsecutive(args.schedule, args.subjects)

\* C10: validateSchedule reports no consecutive_sessions violation on a day
\* all of whose sessions belong to one subject, however many they are.
C10_SingleSubjectDayNotFlagged ==
    (op = "validateSchedule" /\ ret.ok) =>
        \A d \in 1..Len(args.schedule) :
            Cardinality(DistinctSubjects(args.schedule[d])) = 1 =>
                \A i \in 1..Len(ret.val.violations) :
                    ~(/\ ret.val.violations[i].type = "consecutive_sessions"
                      /\ ret.val.violations[i].day = d - 1)

\* C11: a second generatePlan call on the same scheduler with the inputs of
\* the first returns a Plan with the schedule the first returned: the run
\* starts from an empty context whatever the first run left behind.
C11_SecondRunIdentical ==
    ValidPlanCall =>
        /\ ret.ok
        /\ LET second == generatePlan(scheduler, args.inputs, args.subjects).res
           IN  second.ok /\ second.val.schedule = ret.val.schedule

\* the subject and the duration of every slot of a schedule, in order
SlotProfile(schedule) ==
    [i \in 1..Len(AllSlots(schedule)) |->
        <<AllSlots(schedule)[i].subjectId, AllSlots(schedule)[i].duration>>]

\* C12: after importData of the text exportSchedule('json') returns for a
\* generated schedule, loadPlan returns a plan whose schedule has the slots
\* of the exported one: as many, with the same subjects and durations.
C12_ExportImportRoundTrip ==
    ( /\ op = "importData"
      /\ Len(scheduler.schedule) >= 1
      /\ args.jsonString = exportSchedule(scheduler, "json") )
    =>  LET plan == loadPlan(localStorage)
        IN  /\ JTruthy(plan)
            /\ JGet(plan, "schedule").t = "array"
            /\ SlotProfile(JGet(plan, "schedule").items)
                   = SlotProfile(scheduler.schedule)

\* C13: an allocation allocateDailyHours returns has a finite allocatedHours:
\* the total weight it divided by was positive.  No call over a non-empty
\* list returns (NoAllocationReturned), so the division is never reached;
\* the weights themselves, computed with a context, are all positive
\* (WeightsPositive), unrecognised priority and difficulty included.
NoAllocationReturned ==
    (op = "allocateDailyHours" /\ ret.ok) => ret.val = << >>

WeightsPositive ==
    (op = "calculateSubjectWeights" /\ ret.ok) =>
        \A i \in 1..Len(ret.val) : ret.val[i].weight > 0

\* C14: importData of a text that is no JSON returns, with success = false,
\* and leaves the text under every key as it was.
C14_MalformedImportRejected ==
    (op = "importData" /\ ~JSONparse(args.jsonString).ok) =>
        /\ ret.ok
        /\ ret.val.success = FALSE
        /\ localStorage = args.before

\* C14 witness: a malformed import was refused over a store holding a plan
C14_Witness ==
    /\ op = "importData"
    /\ args.jsonString = BadText
    /\ ret.ok
    /\ ~ret.val.success
    /\ args.before[planKey].k = "json"
    /\ localStorage[planKey] = args.before[planKey]

ReadOperations ==
    {"loadPlan", "loadProgress", "getCompletionStats", "exportAllData",
     "loadSavedPreferences"}

\* C15: with a text that is no JSON under one of the three keys, every
\* read operation returns; loadPlan and loadProgress return null for such
\* a text under their key, and getCompletionStats returns the zero stats
\* when the progress text is such.
C15_ReadsSurviveUnparseable ==
    ( /\ op \in ReadOperations
      /\ \E key \in StorageKeys : localStorage[key] = BadText )
    =>  /\ ret.ok
        /\ (op = "loadPlan" /\ localStorage[planKey] = BadText)
               => ret.val = JNull
        /\ (op = "loadProgress" /\ localStorage[progressKey] = BadText)
               => ret.val = JNull
        /\ (op = "getCompletionStats" /\ localStorage[progressKey] = BadText)
               => ret.val = [total |-> 0, completed |-> 0, percentage |-> 0]

\* C16: needsLongBreak(n, k) is true exactly when n >= k.
C16_LongBreakIffAtLeast ==
    op = "needsLongBreak" =>
        /\ ret.ok
        /\ ret.val = TRUE <=>
               args.consecutiveSessions >= args.maxSessionsWithoutLongBreak

\* C16 witness: one session short of the threshold, no long break
C16_Witness ==
    /\ op = "needsLongBreak"
    /\ args.maxSessionsWithoutLongBreak = MAX_SESSIONS_WITHOUT_LONG_BREAK
    /\ args.consecutiveSessions = args.maxSessionsWithoutLongBreak - 1
    /\ ret = Ok(FALSE)

\* what the day-finalize step leaves, given the counter value `reset` of a
\* subject with a session on the day
ContextAfterDay(reset) ==
    op = "updateContextAfterDay" =>
        LET studied == DistinctSubjects(args.daySchedule)
            before == args.before.daysSinceLastStudy
            after == scheduler.context.daysSinceLastStudy
            sessions == SessionsOf(args.daySchedule)
        IN  /\ DOMAIN after = DOMAIN before \cup studied
            /\ \A id \in studied : after[id] = reset
            /\ \A id \in DOMAIN before \ studied : after[id] = before[id] + 1
            /\ Len(sessions) > 0 =>
                   scheduler.context.lastScheduledSubject
                       = sessions[Len(sessions)].subjectId

\* C17 as stated: after updateContextAfterDay, daysSinceLastStudy is 0 for
\* every subject with a session on the day and its previous value plus 1 for
\* every other tracked subject; lastScheduledSubject is the subject of the
\* day's last session.
C17_StudiedResetToZero == ContextAfterDay(0)

\* C17 amended: the counter of a subject with a session on the day is 1 (it
\* is reset to 0 and then incremented with all the others); the rest as
\* stated, lastScheduledSubject being left alone by a day without session.
C17_StudiedLeftAtOne ==
    /\ ContextAfterDay(1)
    /\ (op = "updateContextAfterDay" /\ SessionsOf(args.daySchedule) = << >>)
           => scheduler.context.lastScheduledSubject
                  = args.before.lastScheduledSubject

\* C17 witness: a day with a session of one tracked subject and none of
\* another tracked subject has been finalized
C17_Witness ==
    /\ op = "updateContextAfterDay"
    /\ \E a \in DOMAIN args.before.daysSinceLastStudy,
          b \in DOMAIN args.before.daysSinceLastStudy :
          /\ a \in DistinctSubjects(args.daySchedule)
          /\ b \notin DistinctSubjects(args.daySchedule)
          /\ args.before.daysSinceLastStudy[a] >= 2
          /\ scheduler.context.daysSinceLastStudy[a] = 1
          /\ scheduler.context.daysSinceLastStudy[b]
                 = args.before.daysSinceLastStudy[b] + 1
          /\ scheduler.context.lastScheduledSubject = a

\* the subjects of an allocation list at or above the revision threshold
\* at the start of the day, in the order of the list
DueSubjects(self, allocations) ==
    SelectSeq(allocations, LAMBDA s : NeedsRevision(self, s))

\* a selectTodaysSubjects call on a revision day / on a normal day
RevisionDayCall ==
    op = "selectTodaysSubjects" /\ DueSubjects(scheduler, args.allocations) # << >>
NormalDayCall ==
    op = "selectTodaysSubjects" /\ DueSubjects(scheduler, args.allocations) = << >>

\* C18: every subject with positive allocatedHours is selected on some day
\* of a run.  Checked on the days without revision: whatever the day index,
\* the window of the day holds the subject for some index.  (A subject the
\* window never holds is never studied, so never tracked, so never selected
\* on a revision day either.)
C18_WindowReachesEverySubject ==
    NormalDayCall =>
        \A i \in 1..Len(args.allocations) :
            args.allocations[i].allocatedHours > 0 =>
                \E d \in 0..MaxAllocs :
                    args.allocations[i].id
                        \in SubjectIds(selectTodaysSubjects(scheduler,
                                                           args.allocations, d))

\* the first k elements of the set ids in increasing order (the ids are
\* the registration positions)
FirstByRegistration(ids, k) ==
    {i \in ids : Cardinality({j \in ids : j < i}) < k}

\* C19 as stated: on a revision day the selected subjects are the first
\* min(3, n) of the n subjects at or above the threshold in registration
\* order.
C19_FirstThreeByRegistration ==
    RevisionDayCall =>
        SubjectIds(ret.val)
            = FirstByRegistration(
                  SubjectIds(DueSubjects(scheduler, args.allocations)), 3)

\* C19 amended: on a revision day the selected subjects are the first
\* min(3, n) of the n subjects at or above the threshold in the order of
\* the allocation list (priority high to low, registration order within a
\* priority), in that order; no subject below the threshold is selected.
C19_FirstThreeByAllocationOrder ==
    RevisionDayCall =>
        LET due == DueSubjects(scheduler, args.allocations)
        IN  /\ ret.val = SubSeq(due, 1, Min2(3, Len(due)))
            /\ \A i \in 1..Len(ret.val) :
                   scheduler.context.daysSinceLastStudy[ret.val[i].id]
                       >= REVISION_FREQUENCY

\* C19 witness: four subjects are due, the one registered first has low
\* priority and is the one left out
C19_Witness ==
    /\ RevisionDayCall
    /\ Len(DueSubjects(scheduler, args.allocations)) = 4
    /\ Len(ret.val) = 3
    /\ 1 \in SubjectIds(DueSubjects(scheduler, args.allocations))
    /\ 1 \notin SubjectIds(ret.val)

\* minutes of sessions of a subject in the days scheduled so far
ScheduledMinutes(schedule, subjectId) ==
    LET sessions == SelectSeq(AllSlots(schedule),
                        LAMBDA s : IsSession(s) /\ s.subjectId = subjectId)
    IN  SumSeq([i \in 1..Len(sessions) |-> sessions[i].duration])

ValidDayCall ==
    /\ op = "generateDaySchedule"
    /\ ~Has(args.sessionSettings, "dailyHours")
    /\ selectTodaysSubjects(scheduler, args.allocations, args.dayIndex) # << >>

\* C21: for valid input, a day for which at least one subject is selected
\* is filled from 09:00 under the daily-hour budget of the timeline: it does
\* not end without a session (the budget is at least 2 hours, the clock is
\* at 09:00), and its first slot is a session starting at 9:00 AM.
C21_DayWithSubjectsHasSession ==
    ValidDayCall =>
        /\ ret.ok
        /\ Len(SessionsOf(ret.val)) >= 1
        /\ IsSession(ret.val.slots[1])
        /\ ret.val.slots[1].startTime = [h |-> 9, m |-> 0, period |-> "AM"]

\* C22, C23, C26, C27: no generateDaySchedule call returns a day with a
\* slot.  With the validated settings the loop condition reads
\* sessionSettings.dailyHours, which is undefined, and the loop is not
\* entered; with dailyHours in the settings the first iteration ends in the
\* TypeError of getOptimalSessionLength.
NoDaySlot ==
    (op = "generateDaySchedule" /\ ret.ok) => ret.val.slots = << >>

\* with the budget in the settings and a subject selected, the call throws
FillLoopThrows ==
    ( /\ op = "generateDaySchedule"
      /\ Has(args.sessionSettings, "dailyHours")
      /\ selectTodaysSubjects(scheduler, args.allocations, args.dayIndex)
             # << >> )
    => ~ret.ok

\* a day a generateDaySchedule call returned
ReturnedDay == op = "generateDaySchedule" /\ ret.ok

\* the clock minute at which a slot starts and the one at which it ends
StartOf(slot) == ToMinutes(slot.startTime)
EndOf(slot) == ToMinutes(slot.startTime) + slot.duration

IsLunch(slot) == slot.type = BREAK /\ slot.breakType = "lunch"

\* C22: a returned day with a slot ending after 12:00 holds exactly one
\* lunch break, of 60 minutes, and the slot after it is the first of the
\* other slots that starts at or after 12:00; a day that ends by 12:00 holds
\* no lunch break.
C22_OneLunchPastNoon ==
    ReturnedDay =>
        LET slots == ret.val.slots
            lunches == {i \in 1..Len(slots) : IsLunch(slots[i])}
            pastNoon == \E i \in 1..Len(slots) :
                            ~IsLunch(slots[i]) /\ EndOf(slots[i]) > 12 * 60
        IN  IF pastNoon
            THEN /\ Cardinality(lunches) = 1
                 /\ \A i \in lunches :
                        /\ slots[i].duration = 60
                        /\ \A j \in 1..(i - 1) : StartOf(slots[j]) < 12 * 60
                        /\ i < Len(slots) => StartOf(slots[i + 1]) >= 12 * 60
            ELSE lunches = {}

\* the sessions of slots[1..i] after the last long break among them
RECURSIVE SessionsSinceLongBreak(_, _)
SessionsSinceLongBreak(slots, i) ==
    IF i = 0 THEN 0
    ELSE IF slots[i].type = BREAK /\ slots[i].breakType = "long" THEN 0
    ELSE SessionsSinceLongBreak(slots, i - 1)
         + (IF IsSession(slots[i]) THEN 1 ELSE 0)

\* C23: in a returned day (lunch break aside) the session that is the 4th
\* since the day start or the last long break is directly followed by a long
\* break of 30 minutes, a session that is not the 4th is never followed by
\* a long break, and no point of the day has more than 4 sessions since the
\* last long break.
C23_LongBreakEveryFourSessions ==
    ReturnedDay =>
        LET slots == SelectSeq(ret.val.slots, LAMBDA s : ~IsLunch(s))
        IN  \A i \in 1..Len(slots) :
                /\ SessionsSinceLongBreak(slots, i)
                       <= MAX_SESSIONS_WITHOUT_LONG_BREAK
                /\ IsSession(slots[i]) =>
                       IF SessionsSinceLongBreak(slots, i)
                              = MAX_SESSIONS_WITHOUT_LONG_BREAK
                       THEN /\ i < Len(slots)
                            /\ slots[i + 1].type = BREAK
                            /\ slots[i + 1].breakType = "long"
                            /\ slots[i + 1].duration = LONG_BREAK_DURATION
                       ELSE i < Len(slots) =>
                                /\ slots[i + 1].type = BREAK
                                /\ slots[i + 1].breakType = "regular"

\* C26: generatePlan terminates for every validated input.  A call is one
\* step of the state machines here, and its result is computed by running
\* the day loop and the fill loop to their end, so a call that has a result
\* has terminated; the only results are the TypeError and, for the
\* validated settings, days whose fill loop made no iteration (NoDaySlot).

\* C27: no slot of a returned day ends after 22:00 and no session of it
\* starts at or after 21:00.
C27_NothingLate ==
    ReturnedDay =>
        \A i \in 1..Len(ret.val.slots) :
            /\ EndOf(ret.val.slots[i]) <= AVOID_LATE_NIGHT * 60
            /\ IsSession(ret.val.slots[i]) =>
                   StartOf(ret.val.slots[i]) < 21 * 60

\* the preferred window [start, end) of a subject, in hours of the day
PreferredWindow(subject) ==
    IF subject.difficulty = "hard" \/ subject.priority = "high" THEN <<9, 12>>
    ELSE IF subject.difficulty = "medium" \/ subject.priority = "medium"
    THEN <<13, 17>>
    ELSE <<18, 20>>

\* C24: validateSchedule returns, and for every session of a subject of the
\* list it reports a time_preference violation at the session's day and
\* slot exactly when the hour of the day (0-23) at which the session starts
\* is outside the subject's preferred window.
C24_TimePreferenceIffOutsideWindow ==
    op = "validateSchedule" =>
        /\ ret.ok
        /\ \A d \in 1..Len(args.schedule) :
               \A i \in 1..Len(args.schedule[d].slots) :
                   LET slot == args.schedule[d].slots[i]
                       found == FindSubject(args.subjects, slot.subjectId)
                       hour == ToMinutes(slot.startTime) \div 60
                   IN  (IsSession(slot) /\ found # << >>) =>
                           ( (\E v \in 1..Len(ret.val.violations) :
                                 /\ ret.val.violations[v].type = "time_preference"
                                 /\ ret.val.violations[v].day = d - 1
                                 /\ ret.val.violations[v].slot = i - 1)
                             <=> ( hour < PreferredWindow(found[1])[1]
                                   \/ hour >= PreferredWindow(found[1])[2] ) )

\* the weight of the formula, in hundredths: priority weight x revision
\* multiplier (1.5 when the subject's days since last study are at least
\* REVISION_FREQUENCY, else 1) x difficulty weight
FormulaWeight(subject, context) ==
    PRIORITY_WEIGHTS(subject.priority)
    * (IF Has(context, "daysSinceLastStudy")
          /\ LookupOrZero(context.daysSinceLastStudy, subject.id)
                 >= REVISION_FREQUENCY
       THEN 15 ELSE 10)
    * DIFFICULTY_WEIGHTS(subject.difficulty)

\* C25: for every subject (priority and difficulty among the three values
\* each) and every context, calculateSubjectWeights returns the weight of
\* the formula; allocateDailyHours returns allocations carrying these
\* weights with no revision multiplier.
C25_WeightIsProduct ==
    /\ (op = "calculateSubjectWeights" /\ args.subjects \in SubjectLists) =>
           /\ ret.ok
           /\ Len(ret.val) = Len(args.subjects)
           /\ \A i \in 1..Len(ret.val) :
                  ret.val[i].weight = FormulaWeight(args.subjects[i], args.context)
    /\ (op = "allocateDailyHours" /\ args.subjects \in SubjectLists) =>
           /\ ret.ok
           /\ \A i \in 1..Len(ret.val) :
                  \E j \in 1..Len(args.subjects) :
                      /\ ret.val[i].id = args.subjects[j].id
                      /\ ret.val[i].weight
                             = FormulaWeight(args.subjects[j], EmptyObject)

\* the list with its first two elements exchanged
SwapFirstTwo(subjects) ==
    IF Len(subjects) < 2 THEN subjects
    ELSE <<subjects[2], subjects[1]>> \o SubSeq(subjects, 3, Len(subjects))

\* C30: allocateDailyHours returns one allocation per input subject, high
\* priority before medium before low, and a subject's allocatedHours is the
\* same when the input list is permuted (here: its first two subjects
\* exchanged).
C30_OnePerSubjectOrderIndependent ==
    (op = "allocateDailyHours" /\ args.subjects \in SubjectLists) =>
        /\ ret.ok
        /\ Len(ret.val) = Len(args.subjects)
        /\ SubjectIds(ret.val) = SubjectIds(args.subjects)
        /\ \A i \in 1..Len(ret.val), j \in 1..Len(ret.val) :
               i < j => PRIORITY_WEIGHTS(ret.val[i].priority)
                            >= PRIORITY_WEIGHTS(ret.val[j].priority)
        /\ LET other == allocateDailyHours(SwapFirstTwo(args.subjects),
                                           args.totalDailyHours)
           IN  /\ other.ok
               /\ \A i \in 1..Len(ret.val), j \in 1..Len(other.val) :
                      ret.val[i].id = other.val[j].id =>
                          ret.val[i].allocatedHours = other.val[j].allocatedHours

\* the suggestion the claim gives for a violation of each kind
CannedSuggestion(type) ==
    CASE type = "consecutive_sessions" ->
           [type |-> "warning", action |-> "reschedule", priority |-> "medium"]
      [] type = "time_preference" ->
           [type |-> "info", action |-> "consider_reschedule", priority |-> "low"]
      [] type = "revision_needed" ->
           [type |-> "important", action |-> "add_revision", priority |-> "high"]

\* the study/revision sessions of a schedule, counted slot by slot
SessionCount(schedule) ==
    Cardinality({<<d, i>> \in (1..Len(schedule)) \X (1..20) :
                    /\ i <= Len(schedule[d].slots)
                    /\ IsSession(schedule[d].slots[i])})

\* C29: generateSuggestions(violations, schedule) returns one suggestion per
\* violation, in the order of the violations and with the type, action and
\* priority of the violation's kind, then an increase_breaks tip exactly
\* when the schedule has more than 6 study/revision sessions, then an
\* optimize tip exactly when the efficiency score is below 70, and nothing
\* else.
C29_SuggestionsInOrder ==
    op = "generateSuggestions" =>
        LET n == Len(args.violations)
            breaks == IF SessionCount(args.schedule) > 6 THEN 1 ELSE 0
            optimize == IF calculateEfficiencyScore(args.schedule) < 70
                        THEN 1 ELSE 0
        IN  /\ ret.ok
            /\ Len(ret.val) = n + breaks + optimize
            /\ \A i \in 1..n :
                   ret.val[i] = CannedSuggestion(args.violations[i].type)
            /\ breaks = 1 =>
                   ret.val[n + 1] = [type |-> "tip", action |-> "increase_breaks",
                                     priority |-> "medium"]
            /\ optimize = 1 =>
                   ret.val[n + breaks + 1]
                       = [type |-> "tip", action |-> "optimize",
                          priority |-> "medium"]

\* C29 witness: a violation of each kind, in an order other than that of
\* the switch, on a schedule of 7 sessions whose score is below 70: five
\* suggestions, the two tips last
C29_Witness ==
    /\ op = "generateSuggestions"
    /\ Len(args.violations) = 3
    /\ args.violations[1].type = "revision_needed"
    /\ args.violations[2].type = "consecutive_sessions"
    /\ args.violations[3].type = "time_preference"
    /\ SessionCount(args.schedule) = 7
    /\ Len(ret.val) = 5
    /\ ret.val[1].action = "add_revision"
    /\ ret.val[4].action = "increase_breaks"
    /\ ret.val[5].action = "optimize"

\* a call on 6 sessions and a score of at least 70 returns the suggestions
\* of the violations only
C29_WitnessNoTip ==
    /\ op = "generateSuggestions"
    /\ Len(args.violations) = 1
    /\ SessionCount(args.schedule) = 6
    /\ calculateEfficiencyScore(args.schedule) >= 70
    /\ Len(ret.val) = 1

\* C28: the efficiencyScore of the Summary of a returned Plan is the score
\* calculateEfficiencyScore gives for the Plan's schedule, and the optimize
\* tip is among the suggestions exactly when that score is below 70.  The
\* only Plans returned are those of an empty subject list, without a slot
\* (NoGeneratedSlot): both scores are the 0 of a schedule without study
\* time.  The two computations divide minutes and hours respectively; they
\* are the same rational number, which is what the integers here compute.
C28_SummaryScoreIsSuggestionScore ==
    (op = "generatePlan" /\ ret.ok) =>
        /\ ret.val.summary.efficiencyScore
               = calculateEfficiencyScore(ret.val.schedule)
        /\ (\E i \in 1..Len(ret.val.suggestions) :
                ret.val.suggestions[i].action = "optimize")
           <=> ret.val.summary.efficiencyScore < 70

\* an output record keeps every field of the input subject it was made of
\* ({...subject, weight, adjustments}) and carries a weight
Enriches(out, subject) ==
    /\ \A f \in DOMAIN subject : f \in DOMAIN out /\ out[f] = subject[f]
    /\ "weight" \in DOMAIN out

\* C31: calculateSubjectWeights (given a context with daysSinceLastStudy)
\* and allocateDailyHours return one new enriched record per input subject,
\* each keeping the fields of its subject; the subjects and the context of
\* the call are values here, so that they are unchanged and that equal
\* arguments give equal results hold by construction and are not part of
\* the formula.
C31_ReturnsEnrichedRecords ==
    ( \/ op = "allocateDailyHours"
      \/ (op = "calculateSubjectWeights"
          /\ Has(args.context, "daysSinceLastStudy")) ) =>
        /\ ret.ok
        /\ Len(ret.val) = Len(args.subjects)
        /\ \A i \in 1..Len(args.subjects) :
              \E j \in 1..Len(ret.val) : Enriches(ret.val[j], args.subjects[i])

\* the calculateSubjectWeights half of C31 alone
C31_WeightsEnriched ==
    (op = "calculateSubjectWeights"
     /\ Has(args.context, "daysSinceLastStudy")) =>
        /\ ret.ok
        /\ Len(ret.val) = Len(args.subjects)
        /\ \A i \in 1..Len(args.subjects) :
              Enriches(ret.val[i], args.subjects[i])

\* C32: generatePlan on the empty subject list returns a Plan (no
\* exception) with totalDays days, each without slot, session or study
\* hours, with an empty allocation list and no violation.
C32_EmptyListGivesEmptyPlan ==
    (op = "generatePlan" /\ args.subjects = << >>) =>
        /\ ret.ok
        /\ Len(ret.val.schedule) = args.inputs.timeline.totalDays
        /\ \A i \in 1..Len(ret.val.schedule) :
              /\ ret.val.schedule[i].slots = << >>
              /\ ret.val.schedule[i].totalSessions = 0
              /\ ret.val.schedule[i].totalStudyHours = 0
        /\ ret.val.allocations = << >>
        /\ ret.val.validation.violations = << >>

\* a run over MaxDays days on the empty list; the scheduler is left at the
\* index of the last day
C32_Witness ==
    /\ op = "generatePlan"
    /\ args.subjects = << >>
    /\ args.inputs.timeline.totalDays = MaxDays
    /\ ret.ok
    /\ Len(ret.val.schedule) = MaxDays
    /\ scheduler.currentDay = MaxDays - 1

\* the subjects of the allocation list that are due for revision at the
\* start of a run
DueAtStart == {args.allocations[i].id : i \in 1..Len(args.allocations)}
              \cap {id \in DOMAIN args.before.daysSinceLastStudy :
                       args.before.daysSinceLastStudy[id] >= REVISION_FREQUENCY}

C33_CountersOnlyGrow ==
    (op = "runDays" /\ ret.ok) =>
        /\ Len(scheduler.schedule) = args.totalDays
        /\ \A d \in 1..Len(scheduler.schedule) :
              scheduler.schedule[d].slots = << >>
        /\ DOMAIN scheduler.context.daysSinceLastStudy
               = DOMAIN args.before.daysSinceLastStudy
        /\ \A id \in DOMAIN args.before.daysSinceLastStudy :
              scheduler.context.daysSinceLastStudy[id]
                  = args.before.daysSinceLastStudy[id] + args.totalDays

\* a run that ends in an exception was given dailyHours in the session
\* settings and at least one subject; the days before the exception are
\* without slot
C33_ThrowsOnlyWithBudget ==
    (op = "runDays" /\ ~ret.ok) =>
        /\ Has(args.sessionSettings, "dailyHours")
        /\ Len(args.allocations) >= 1
        /\ \A d \in 1..Len(scheduler.schedule) :
              scheduler.schedule[d].slots = << >>

\* C34: in every day of a returned Plan the durations of the study and
\* revision sessions sum to at most the daily budget timeline.dailyHours.
\* The only Plans returned are those of the empty subject list
\* (NoGeneratedSlot): the sum is 0 on each of their days.
C34_StudyWithinBudget ==
    (op = "generatePlan" /\ ret.ok) =>
        \A d \in 1..Len(ret.val.schedule) :
            /\ SumSeq([i \in 1..Len(SessionsOf(ret.val.schedule[d])) |->
                          SessionsOf(ret.val.schedule[d])[i].duration])
                   <= 60 * args.inputs.timeline.dailyHours
            /\ ret.val.schedule[d].totalStudyHours
                   <= 60 * args.inputs.timeline.dailyHours

\* the same for a day generateDaySchedule returns when the caller puts the
\* budget into the session settings, where the fill loop reads it
C34_DayWithinBudget ==
    (ReturnedDay /\ Has(args.sessionSettings, "dailyHours")) =>
        ret.val.totalStudyHours <= 60 * args.sessionSettings.dailyHours

\* the number of sessions of a subject in a day
SessionsOfSubject(day, id) ==
    Cardinality({i \in 1..Len(SessionsOf(day)) : SessionsOf(day)[i].subjectId = id})

\* C35: in a returned day with k selected subjects the i-th session (from
\* 0) is of the selected subject at position i mod k of the sorted
\* selection, and the session counts of two selected subjects differ by at
\* most one.  No returned day has a session (NoDaySlot), so the formula has
\* no session to range over.
C35_SessionsCycleThroughSelection ==
    (ReturnedDay /\ Len(ret.val.todaysSubjects) >= 1) =>
        LET k == Len(ret.val.todaysSubjects)
            sessions == SessionsOf(ret.val)
        IN  /\ \A i \in 1..Len(sessions) :
                  sessions[i].subjectId
                      = ret.val.todaysSubjects[((i - 1) % k) + 1].id
            /\ \A a, b \in 1..k :
                  SessionsOfSubject(ret.val, ret.val.todaysSubjects[a].id)
                  - SessionsOfSubject(ret.val, ret.val.todaysSubjects[b].id)
                      <= 1

\* C36: every slot of a returned Plan carries the day number of the
\* DaySchedule that holds it.  The Plans returned have no slot
\* (NoGeneratedSlot).
C36_SlotCarriesItsDay ==
    (op = "generatePlan" /\ ret.ok) =>
        \A d \in 1..Len(ret.val.schedule) :
            \A i \in 1..Len(ret.val.schedule[d].slots) :
                ret.val.schedule[d].slots[i].day = ret.val.schedule[d].day

\* what the two constructors stamp at a day boundary of the loop: after the
\* days 1..n (n >= 1) of a run this.currentDay is n - 1, so a break slot
\* made for day index n gets day n, and a session slot made for day index n
\* gets day n + 1
C36_StampsAtDayBoundary ==
    (op = "runDays" /\ ret.ok) =>
        LET n == Len(scheduler.schedule)
            subject == [id |-> 1, priority |-> "high", difficulty |-> "medium"]
        IN  /\ createBreakSlot(scheduler, 10 * 60, 10, "regular").day = n
            /\ createSessionSlot(scheduler, subject, 9 * 60, 60, n).day = n + 1

\* C37: within a returned Plan no two slots share an id, on the same day or
\* on different days.  The Plans returned have no slot (NoGeneratedSlot).
C37_SlotIdsUnique ==
    (op = "generatePlan" /\ ret.ok) =>
        LET all == AllSlots(ret.val.schedule)
        IN  \A i, j \in 1..Len(all) : all[i].id = all[j].id => i = j

\* C38: getCompletionStats returns completed <= total and a percentage
\* between 0 and 100, whatever plans were saved and whatever sessions were
\* marked or unmarked before.
C38_StatsWithinPlan ==
    (op = "getCompletionStats" /\ ret.ok) =>
        /\ ret.val.completed <= ret.val.total
        /\ ret.val.percentage >= 0
        /\ ret.val.percentage <= 100

\* the percentage alone
C38_PercentageInRange ==
    (op = "getCompletionStats" /\ ret.ok) =>
        (ret.val.percentage >= 0 /\ ret.val.percentage <= 100)

\* the minutes of the sessions of a subject that are marked completed
CompletedMinutes(plan, id) ==
    LET done == SelectSeq(AllSlots(plan.schedule),
                          LAMBDA s : IsSession(s) /\ s.completed
                                     /\ s.subjectId = id)
    IN  SumSeq([i \in 1..Len(done) |-> done[i].duration])

\* every allocation's hoursCompleted is the total of its completed sessions
HoursMatchFlags(plan) ==
    \A k \in 1..Len(plan.allocations) :
        (IF Has(plan.allocations[k], "hoursCompleted")
         THEN plan.allocations[k].hoursCompleted ELSE 0)
            = CompletedMinutes(plan, plan.allocations[k].id)

\* C39: on a Plan generatePlan has just returned, toggling a slot leaves
\* every allocation's hoursCompleted at the total duration of that
\* subject's completed sessions, and toggling the same slot a second time
\* gives back the flags and, for every allocation, the hours before the
\* first.  The Plans returned have no slot (NoGeneratedSlot).
C39_ToggleKeepsHours ==
    (op = "generatePlan" /\ ret.ok) =>
        \A id \in {AllSlots(ret.val.schedule)[i].id :
                      i \in 1..Len(AllSlots(ret.val.schedule))}
                  \cup {<<"session", 1, 0, 9 * 60>>} :
            LET once == toggleSessionCompletion(ret.val, localStorage, id)
                twice == toggleSessionCompletion(once.plan, once.store, id)
            IN  /\ once.res.ok /\ twice.res.ok
                /\ HoursMatchFlags(once.plan)
                /\ HoursMatchFlags(twice.plan)
                /\ twice.plan.schedule = ret.val.schedule

\* on every Plan returned a toggle finds no slot and changes nothing
C39_ToggleFindsNoSlot ==
    (op = "generatePlan" /\ ret.ok) =>
        toggleSessionCompletion(ret.val, localStorage,
                                <<"session", 1, 0, 9 * 60>>).plan = ret.val

====
